---- MODULE Spec2Model ----
(***************************************************************************)
(* Monkey Troop coordinator: credit ledger, fleet registry, rate limiter   *)
(* and ticket service, modelled from src/coordinator.                      *)
(*                                                                         *)
(* The durable store is PostgreSQL reached through one SQLAlchemy Session  *)
(* per request; the ephemeral store is Redis.  Requests are served by      *)
(* several coordinator processes sharing both stores, so two requests      *)
(* interleave at every store round trip: a request is a process whose      *)
(* steps are the round trips of its handler.                               *)
(*                                                                         *)
(* Session semantics (sessionmaker defaults, database.py:17):              *)
(*   - a query returns the instance already held by the session's identity *)
(*     map without overwriting its loaded attributes;                      *)
(*   - `obj.attr += x` assigns the Python value loaded + x, and the flush  *)
(*     issues UPDATE ... SET attr = <that value>;                          *)
(*   - commit expires every instance (expire_on_commit), the next          *)
(*     attribute access reloads the row.                                   *)
(* Fixed point: multipliers and trust scores are kept in hundredths.       *)
(***************************************************************************)
EXTENDS Integers, Sequences, FiniteSets, Bags, TLC

VARIABLES
    users,          \* users table: public_key -> [exists, balance_seconds]
    nodes,          \* nodes table: node_id -> row (exists = FALSE: no such row)
    transactions,   \* transactions table: the bag of its rows (ids left out)
    req,            \* per request slot: the running handler's position and locals
    calls,          \* number of requests started so far
    kv,             \* Redis keys: key -> [present, val, exp] (exp = NoTTL: no expiry)
    now,            \* wall clock, seconds
    tickets,        \* tickets handed to clients
    hist            \* observations for the properties (not program state)

vars == <<users, nodes, transactions, req, calls, kv, now, tickets, hist>>

-----------------------------------------------------------------------------
(* Program constants *)

STARTER_CREDITS == 3600
ESTIMATED_JOB_DURATION == 300
CHALLENGE_TTL == 60
HEARTBEAT_TTL == 15
DISCOVERY_LIMIT == 100
INFERENCE_LIMIT == 20
WINDOW_SECONDS == 3600
ACCESS_TOKEN_EXPIRE_MINUTES == 5
ALGORITHM == "RS256"
RECEIPT_SECRET == "receipt-secret"
SystemKey == "system-key"

(* Bounds of the model *)

MaxCalls == 3
MaxLag == 1                                 \* requests overtaking a stalled one
MaxWindows == 1                             \* rate-limit windows that end
MaxTime == 20                               \* the clock stops here, seconds
TickSeconds == 5                            \* the clock's step, seconds
MaxTicketTime == 301                        \* the clock stops here in ticket runs
MaxProofTime == 61                          \* the clock stops here in proof runs
ProofTimes == {0, 59, 60, 61}               \* the clock's values in proof runs
TicketTimes == {0, 1, 299, 300, 301}        \* the clock's values in ticket runs

Procs == {"r1", "r2"}                       \* concurrent requests
PublicKeys == {"u1", "w1"}                  \* the keys requests name
AllKeys == PublicKeys \cup {SystemKey}      \* the keys a users row can have
NodeIds == {"n1", "n2"}
JobIds == {"j1"}
Amounts == {ESTIMATED_JOB_DURATION}         \* amounts of reserve and refund
Durations == {200}                          \* job durations of receipts, seconds
AnyAmounts == Amounts \cup {-ESTIMATED_JOB_DURATION}    \* any int is accepted
AnyDurations == Durations \cup {-200}
Tokens == {"t1"}
Statuses == {"IDLE", "BUSY"}
ClientIp == "10.0.0.9"
Paths == {"/peers", "/authorize", "/health"}
SeqPaths == Paths \cup {"/v1/models"}       \* the paths of one-at-a-time runs
Models == {"llama"}
ModelSets == {{"llama"}, {}}                \* the models a node may serve
\* benchmark durations in hundredths of a second: negative, zero, 0.01 s, the
\* cap's edge (1.75 s and 1.76 s), an exact tie (8 s), 17.5 s, 35 s, 70 s
BenchDurations == {-100, 0, 1, 175, 176, 800, 1750, 3500, 7000}
\* proof hashes: 64 hex digits, 63 hex digits, 64 characters that are not hex
HexHash == "aaaaaaaaaaaaaaaaaaaaaaaaaaaaaaaaaaaaaaaaaaaaaaaaaaaaaaaaaaaaaaaa"
ProofHashes == {HexHash,
                "aaaaaaaaaaaaaaaaaaaaaaaaaaaaaaaaaaaaaaaaaaaaaaaaaaaaaaaaaaaaaaa",
                "gggggggggggggggggggggggggggggggggggggggggggggggggggggggggggggggg"}

Null == "null"
NoTTL == -1
NoUser == [exists |-> FALSE, balance_seconds |-> 0]
UserRow(balance) == [exists |-> TRUE, balance_seconds |-> balance]
NoNode == [exists |-> FALSE, owner_public_key |-> Null, multiplier |-> 0,
           benchmark_score |-> 0, trust_score |-> 0, total_jobs_completed |-> 0]
NoKey == [present |-> FALSE, val |-> 0, exp |-> NoTTL]
Unloaded == [loaded |-> FALSE, balance |-> 0]
Loaded(balance) == [loaded |-> TRUE, balance |-> balance]

-----------------------------------------------------------------------------
(* Pure helpers *)

Min(a, b) == IF a <= b THEN a ELSE b

\* Python int(): truncation toward zero of num/den (den > 0)
IntTrunc(num, den) == IF num >= 0 THEN num \div den ELSE -((-num) \div den)

\* round(num/den) to the nearest integer, ties to even (Python round on an exact tie)
RoundHalfEven(num, den) ==
    LET q == num \div den
        r == num % den
    IN  IF 2 * r < den THEN q
        ELSE IF 2 * r > den THEN q + 1
        ELSE IF q % 2 = 0 THEN q ELSE q + 1

\* calculate_multiplier without the cap of line 162
calculate_multiplier_uncapped(duration) ==
    IF duration <= 0 THEN 0 ELSE RoundHalfEven(35 * 100 * 100, duration)

\* main.py calculate_multiplier; duration and result in hundredths
calculate_multiplier(duration) ==
    IF duration <= 0 THEN 0
    ELSE Min(RoundHalfEven(35 * 100 * 100, duration), 20 * 100)

\* A Python str holding a signature: its text, and whether every character is ASCII.
\* HMAC-SHA256 is modelled as injective in (key, message); hexdigest() is ASCII.
HexDigest(key, message) == [ascii |-> TRUE, text |-> <<"hmac-sha256", key, message>>]

\* transactions.py generate_receipt_signature, lines 179-183
generate_receipt_signature(job_id, node_id, duration_seconds) ==
    HexDigest(RECEIPT_SECRET,
              job_id \o ":" \o node_id \o ":" \o ToString(duration_seconds))

\* hmac.compare_digest on two str: TypeError unless both are ASCII
compare_digest(a, b) ==
    IF ~a.ascii \/ ~b.ascii THEN "TypeError"
    ELSE IF a = b THEN "True" ELSE "False"

ForgedSignature == HexDigest("other-secret", "j1:n1:200")
NonAsciiSignature == [ascii |-> FALSE, text |-> <<"str", "", "e-acute">>]

\* the signatures tried on a receipt: the receipts signed for this job and node
\* (for its duration and for the others), one made with another secret, and a
\* string that holds a non-ASCII character
Signatures(job_id, node_id) ==
    {generate_receipt_signature(job_id, node_id, d) : d \in AnyDurations}
        \cup {ForgedSignature, NonAsciiSignature}

\* db.add(txn); commit
Insert(table, row) == table (+) SetToBag({row})

Txn(from, to, duration, credits, job, node, type, multiplier) ==
    [from_user |-> from, to_user |-> to, duration_seconds |-> duration,
     credits_transferred |-> credits, job_id |-> job, node_id |-> node,
     type |-> type, multiplier |-> multiplier]

\* transactions.py 39-48: the row recording a starter grant
StarterGrant(pk) ==
    Txn(Null, pk, 0, STARTER_CREDITS, "starter_grant", Null, "starter_grant", 0)

\* Redis key names (main.py:220, 272; rate_limit.py:46, 51)
NodeKey(node_id) == "node:" \o node_id
ChallengeKey(token) == "challenge:" \o token
RateKey(bucket, id) == "ratelimit:" \o bucket \o ":" \o id
RateKeys == {RateKey("discovery", ClientIp), RateKey("inference", ClientIp)}
Keys == {NodeKey(n) : n \in NodeIds} \cup {ChallengeKey(t) : t \in Tokens}
            \cup RateKeys

\* a key Redis still serves: stored, and not past its expiry
Live(k) == kv[k].present /\ (kv[k].exp = NoTTL \/ now < kv[k].exp)

EmptyIdent == [pk \in AllKeys |-> Unloaded]

\* db.query(User).filter(User.public_key == pk).first() through a session whose
\* identity map is ident: [found, balance], the balance as the session sees it
QueryUser(ident, pk) ==
    IF ~users[pk].exists THEN [found |-> FALSE, balance |-> 0]
    ELSE IF ident[pk].loaded THEN [found |-> TRUE, balance |-> ident[pk].balance]
    ELSE [found |-> TRUE, balance |-> users[pk].balance_seconds]

Result(status) == [status |-> status]

Free(p) == req[p].pc = "done"
Begin == calls < MaxCalls /\ calls' = calls + 1

Finish(p, result) ==
    req' = [req EXCEPT ![p] = [@ EXCEPT !.pc = "done", !.result = result,
                                        !.ident = EmptyIdent]]

-----------------------------------------------------------------------------
(* transactions.py create_user_if_not_exists, lines 23-52 *)

\* where the caller continues once create_user_if_not_exists has returned
EuReturn(p, ident) ==
    IF req[p].op = "settle"
    THEN req' = [req EXCEPT ![p] = [@ EXCEPT !.pc = "st_modify", !.ident = ident]]
    ELSE IF req[p].op = "authorize"
    THEN req' = [req EXCEPT ![p] = [@ EXCEPT !.pc = "az_check", !.ident = ident]]
    ELSE req' = [req EXCEPT ![p] = [@ EXCEPT !.pc = "done", !.result = Result("user"),
                                             !.ident = EmptyIdent]]

\* a create_user_if_not_exists that inserts without looking the user up
ensure_user_no_lookup(p, pk) ==
    /\ Free(p) /\ Begin
    /\ req' = [req EXCEPT ![p] =
                 [op |-> "ensure_user", pc |-> "eu_insert", eu_pk |-> pk,
                  ident |-> EmptyIdent, result |-> Result("none")]]
    /\ UNCHANGED <<users, nodes, transactions, kv, now, tickets, hist>>

\* line 25 as the first statement of a direct call
ensure_user(p, pk) ==
    /\ Free(p) /\ Begin
    /\ req' = [req EXCEPT ![p] =
                 IF users[pk].exists
                 THEN [op |-> "ensure_user", pc |-> "done", eu_pk |-> pk,
                       ident |-> EmptyIdent, result |-> Result("user")]
                 ELSE [op |-> "ensure_user", pc |-> "eu_insert", eu_pk |-> pk,
                       ident |-> EmptyIdent, result |-> Result("none")]]
    /\ UNCHANGED <<users, nodes, transactions, kv, now, tickets, hist>>

\* line 25 when called from settle or authorize
eu_query(p) ==
    /\ req[p].pc = "eu_query"
    /\ LET b == QueryUser(req[p].ident, req[p].eu_pk) IN
       IF b.found
       THEN EuReturn(p, [req[p].ident EXCEPT ![req[p].eu_pk] = Loaded(b.balance)])
       ELSE req' = [req EXCEPT ![p] = [@ EXCEPT !.pc = "eu_insert"]]
    /\ UNCHANGED <<users, nodes, transactions, calls, kv, now, tickets, hist>>

\* lines 28-36: INSERT the user and commit; users.public_key is UNIQUE
\* (001_initial_schema.py:28), so the commit raises IntegrityError when another
\* session has inserted the key meanwhile, and the exception leaves the handler
eu_insert(p) ==
    /\ req[p].pc = "eu_insert"
    /\ IF users[req[p].eu_pk].exists
       THEN /\ Finish(p, Result("IntegrityError"))
            /\ UNCHANGED users
       ELSE /\ users' = [users EXCEPT ![req[p].eu_pk] = UserRow(STARTER_CREDITS)]
            /\ req' = [req EXCEPT ![p] = [@ EXCEPT !.pc = "eu_grant",
                                                   !.ident = EmptyIdent]]
    /\ UNCHANGED <<nodes, transactions, calls, kv, now, tickets, hist>>

\* lines 38-50: INSERT the starter_grant transaction and commit
eu_grant(p) ==
    /\ req[p].pc = "eu_grant"
    /\ transactions' = Insert(transactions,
                             StarterGrant(req[p].eu_pk))
    /\ EuReturn(p, EmptyIdent)
    /\ UNCHANGED <<users, nodes, calls, kv, now, tickets, hist>>

-----------------------------------------------------------------------------
(* transactions.py reserve_credits, lines 69-78 *)

\* lines 71-73 on a session whose identity map is ident: [ok, balance], ok when
\* the user exists and the balance the session sees covers the amount
ReserveCheck(ident, pk, amount) ==
    LET b == QueryUser(ident, pk) IN
    [ok |-> b.found /\ ~(b.balance < amount), balance |-> b.balance]

\* lines 75-77: the value the UPDATE writes
ReserveWrite(loaded, amount) == loaded - amount

\* lines 71-73 as the first statement of a direct call
reserve(p, pk, amount) ==
    /\ Free(p) /\ Begin
    /\ LET b == ReserveCheck(EmptyIdent, pk, amount) IN
       req' = [req EXCEPT ![p] =
                 IF ~b.ok
                 THEN [op |-> "reserve", pc |-> "done", pk |-> pk, amount |-> amount,
                       ident |-> EmptyIdent, result |-> Result("False")]
                 ELSE [op |-> "reserve", pc |-> "rs_commit", pk |-> pk,
                       amount |-> amount,
                       ident |-> [EmptyIdent EXCEPT ![pk] = Loaded(b.balance)],
                       result |-> Result("none")]]
    /\ UNCHANGED <<users, nodes, transactions, kv, now, tickets, hist>>

\* lines 75-78: UPDATE users SET balance_seconds = loaded - amount; commit
rs_commit(p) ==
    /\ req[p].pc = "rs_commit"
    /\ req[p].op = "reserve"
    /\ users' = [users EXCEPT ![req[p].pk].balance_seconds =
                    ReserveWrite(req[p].ident[req[p].pk].balance, req[p].amount)]
    /\ Finish(p, Result("True"))
    /\ UNCHANGED <<nodes, transactions, calls, kv, now, tickets, hist>>

-----------------------------------------------------------------------------
(* transactions.py refund_credits, lines 81-102 *)

\* lines 83-85
refund(p, pk, amount, job_id) ==
    /\ Free(p) /\ Begin
    /\ req' = [req EXCEPT ![p] =
                 IF ~users[pk].exists
                 THEN [op |-> "refund", pc |-> "done", pk |-> pk, amount |-> amount,
                       job_id |-> job_id, ident |-> EmptyIdent, result |-> Result("none")]
                 ELSE [op |-> "refund", pc |-> "rf_commit", pk |-> pk,
                       amount |-> amount, job_id |-> job_id,
                       ident |-> [EmptyIdent EXCEPT
                                     ![pk] = Loaded(users[pk].balance_seconds)],
                       result |-> Result("none")]]
    /\ UNCHANGED <<users, nodes, transactions, kv, now, tickets, hist>>

\* lines 87-88: UPDATE users SET balance_seconds = loaded + amount; commit
rf_commit(p) ==
    /\ req[p].pc = "rf_commit"
    /\ users' = [users EXCEPT ![req[p].pk].balance_seconds =
                    req[p].ident[req[p].pk].balance + req[p].amount]
    /\ req' = [req EXCEPT ![p] = [@ EXCEPT !.pc = "rf_txn", !.ident = EmptyIdent]]
    /\ UNCHANGED <<nodes, transactions, calls, kv, now, tickets, hist>>

\* lines 90-102: INSERT the refund transaction; commit
rf_txn(p) ==
    /\ req[p].pc = "rf_txn"
    /\ transactions' = Insert(transactions,
            Txn(Null, req[p].pk, 0, req[p].amount, req[p].job_id, Null, "refund", 0))
    /\ Finish(p, Result("none"))
    /\ UNCHANGED <<users, nodes, calls, kv, now, tickets, hist>>

-----------------------------------------------------------------------------
(* transactions.py record_job_completion, lines 105-176 *)

\* lines 119-121: hmac.compare_digest(receipt_signature, expected_signature)
ReceiptCheck(job_id, node_id, duration_seconds, signature) ==
    compare_digest(signature,
                   generate_receipt_signature(job_id, node_id, duration_seconds))

\* line 133: int(duration_seconds * multiplier), the multiplier in hundredths
CreditsToTransfer(duration_seconds, multiplier) ==
    IntTrunc(duration_seconds * multiplier, 100)

SettleEnd(p, job_id, pk, node_id, duration, sig, result) ==
    req' = [req EXCEPT ![p] =
              [op |-> "settle", pc |-> "done", job_id |-> job_id, pk |-> pk,
               node_id |-> node_id, duration |-> duration, sig |-> sig,
               ident |-> EmptyIdent, result |-> result]]

\* an error return that reports every failure as a bad signature
SettleError_one_message(p, job_id, pk, node_id, duration, sig, message) ==
    SettleEnd(p, job_id, pk, node_id, duration, sig,
              [status |-> "error", message |-> "Invalid receipt signature"])

\* lines 122, 127, 140: return {"status": "error", "message": message}
SettleError(p, job_id, pk, node_id, duration, sig, message) ==
    SettleEnd(p, job_id, pk, node_id, duration, sig,
              [status |-> "error", message |-> message])

\* lines 119-144: verify the receipt, load the node, the requester and the owner;
\* a TypeError of compare_digest leaves the function as an exception
record_job_completion(p, job_id, pk, node_id, duration, sig) ==
    /\ Free(p) /\ Begin
    /\ IF ReceiptCheck(job_id, node_id, duration, sig) = "TypeError"
       THEN SettleEnd(p, job_id, pk, node_id, duration, sig, Result("TypeError"))
       ELSE IF ReceiptCheck(job_id, node_id, duration, sig) = "False"
       THEN SettleError(p, job_id, pk, node_id, duration, sig, "Invalid receipt signature")
       ELSE IF ~nodes[node_id].exists
       THEN SettleError(p, job_id, pk, node_id, duration, sig, "Worker node not found")
       ELSE IF ~users[pk].exists
       THEN SettleError(p, job_id, pk, node_id, duration, sig, "Requester not found")
       ELSE LET node == nodes[node_id]
                owner == node.owner_public_key
                loaded == [q \in AllKeys |->
                              IF q \in {pk, owner} /\ users[q].exists
                              THEN Loaded(users[q].balance_seconds) ELSE Unloaded]
            IN req' = [req EXCEPT ![p] =
                 [op |-> "settle",
                  pc |-> IF users[owner].exists THEN "st_modify" ELSE "eu_query",
                  job_id |-> job_id, pk |-> pk, node_id |-> node_id,
                  duration |-> duration, sig |-> sig,
                  eu_pk |-> owner, owner |-> owner,
                  multiplier |-> node.multiplier,
                  credits |-> CreditsToTransfer(duration, node.multiplier),
                  node |-> node, ident |-> loaded, result |-> Result("none")]]
    /\ UNCHANGED <<users, nodes, transactions, kv, now, tickets, hist>>

\* lines 146-155: the in-session assignments; the owner and the node are reloaded
\* first when an earlier commit of this session (the owner's creation) expired them
st_modify(p) ==
    /\ req[p].pc = "st_modify"
    /\ LET r == req[p]
           expired == ~r.ident[r.owner].loaded
           ownerBal == IF expired THEN users[r.owner].balance_seconds
                       ELSE r.ident[r.owner].balance
           node == IF expired THEN nodes[r.node_id] ELSE r.node
       IN req' = [req EXCEPT ![p] =
                    [@ EXCEPT !.pc = "st_commit",
                              !.ident = [r.ident EXCEPT
                                  ![r.owner] = Loaded(ownerBal + r.credits)],
                              !.node = [node EXCEPT
                                  !.total_jobs_completed = @ + 1,
                                  !.trust_score = Min(100, @ + 1)]]]
    /\ UNCHANGED <<users, nodes, transactions, calls, kv, now, tickets, hist>>

\* a commit that writes the whole Node row back as the session loaded it
st_commit_whole_row(p) ==
    /\ req[p].pc = "st_commit"
    /\ LET r == req[p] IN
       /\ users' = [users EXCEPT ![r.owner].balance_seconds = r.ident[r.owner].balance]
       /\ nodes' = [nodes EXCEPT ![r.node_id] = r.node]
       /\ transactions' = Insert(transactions,
               Txn(r.pk, r.owner, r.duration, r.credits, r.job_id, r.node_id,
                   "job_completion", r.multiplier))
       /\ hist' = [hist EXCEPT !.owner_gain =
                       @ + (users'[r.owner].balance_seconds - users[r.owner].balance_seconds)]
       /\ Finish(p, [status |-> "success", credits_transferred |-> r.credits,
                     requester_balance |-> users'[r.pk].balance_seconds,
                     worker_balance |-> users'[r.owner].balance_seconds])
    /\ UNCHANGED <<calls, kv, now, tickets>>

\* lines 157-176: UPDATE the owner and the node, INSERT the transaction, commit;
\* the returned balances are reloaded after the commit
st_commit(p) ==
    /\ req[p].pc = "st_commit"
    /\ LET r == req[p] IN
       /\ users' = [users EXCEPT ![r.owner].balance_seconds = r.ident[r.owner].balance]
       /\ nodes' = [nodes EXCEPT ![r.node_id] =
                       [@ EXCEPT !.total_jobs_completed = r.node.total_jobs_completed,
                                 !.trust_score = r.node.trust_score]]
       /\ transactions' = Insert(transactions,
               Txn(r.pk, r.owner, r.duration, r.credits, r.job_id, r.node_id,
                   "job_completion", r.multiplier))
       /\ hist' = [hist EXCEPT !.owner_gain =
                       @ + (users'[r.owner].balance_seconds - users[r.owner].balance_seconds)]
       /\ Finish(p, [status |-> "success", credits_transferred |-> r.credits,
                     requester_balance |-> users'[r.pk].balance_seconds,
                     worker_balance |-> users'[r.owner].balance_seconds])
    /\ UNCHANGED <<calls, kv, now, tickets>>

-----------------------------------------------------------------------------
(* main.py request_challenge (262-280) and submit_proof (283-342) *)

\* a challenge stored with SET, without its expiry
request_challenge_no_ttl(p, node_id, token) ==
    /\ Free(p) /\ Begin
    /\ ~kv[ChallengeKey(token)].present
    /\ kv' = [kv EXCEPT ![ChallengeKey(token)] =
                 [present |-> TRUE, val |-> "seed", exp |-> NoTTL]]
    /\ req' = [req EXCEPT ![p] =
                 [op |-> "challenge", pc |-> "done", ident |-> EmptyIdent,
                  result |-> [challenge_token |-> token, matrix_size |-> 4096]]]
    /\ hist' = [hist EXCEPT !.challenge[token] =
                    [issued |-> TRUE, at |-> now, consumed |-> FALSE]]
    /\ UNCHANGED <<users, nodes, transactions, now, tickets>>

\* line 272: redis SETEX challenge:<token> 60 <seed>
request_challenge(p, node_id, token) ==
    /\ Free(p) /\ Begin
    /\ ~kv[ChallengeKey(token)].present         \* uuid4 tokens are fresh
    /\ kv' = [kv EXCEPT ![ChallengeKey(token)] =
                 [present |-> TRUE, val |-> "seed", exp |-> now + CHALLENGE_TTL]]
    /\ req' = [req EXCEPT ![p] =
                 [op |-> "challenge", pc |-> "done", ident |-> EmptyIdent,
                  result |-> [challenge_token |-> token, matrix_size |-> 4096]]]
    /\ hist' = [hist EXCEPT !.challenge[token] =
                    [issued |-> TRUE, at |-> now, consumed |-> FALSE]]
    /\ UNCHANGED <<users, nodes, transactions, now, tickets>>

ProofError(p, node_id, token, proof_hash, detail) ==
    /\ req' = [req EXCEPT ![p] =
                 [op |-> "verify", pc |-> "done", node_id |-> node_id, token |-> token,
                  proof_hash |-> proof_hash, duration |-> 0, ident |-> EmptyIdent,
                  result |-> [status |-> "400", detail |-> detail]]]
    /\ UNCHANGED <<users, nodes, kv, hist>>

\* lines 302-330: the Node row after the upsert, owned by owner when it is new
UpsertNode(node_id, owner, score, duration) ==
    IF ~nodes[node_id].exists
    THEN [exists |-> TRUE, owner_public_key |-> owner, multiplier |-> score,
          benchmark_score |-> duration, trust_score |-> 0, total_jobs_completed |-> 0]
    ELSE [nodes[node_id] EXCEPT !.multiplier = score, !.benchmark_score = duration]

\* lines 289-342; a new node goes to db.query(User).first(), any row of the users
\* table, or to a "system-key" user inserted with balance 0 when the table is empty
submit_proof(p, node_id, token, proof_hash, duration) ==
    /\ Free(p) /\ Begin
    /\ IF ~Live(ChallengeKey(token))
       THEN ProofError(p, node_id, token, proof_hash, "Challenge expired or invalid")
       ELSE IF Len(proof_hash) # 64
       THEN ProofError(p, node_id, token, proof_hash, "Invalid hash format")
       ELSE LET score == calculate_multiplier(duration)
                existing == {pk \in AllKeys : users[pk].exists}
            IN
            \E owner \in (IF existing = {} THEN {SystemKey} ELSE existing) :
               /\ users' = IF ~nodes[node_id].exists /\ existing = {}
                           THEN [users EXCEPT ![SystemKey] = UserRow(0)] ELSE users
               /\ nodes' = [nodes EXCEPT ![node_id] =
                               UpsertNode(node_id, owner, score, duration)]
               /\ kv' = [kv EXCEPT ![ChallengeKey(token)] = NoKey]
               /\ hist' = [hist EXCEPT !.challenge[token].consumed = TRUE]
               /\ req' = [req EXCEPT ![p] =
                    [op |-> "verify", pc |-> "done", node_id |-> node_id,
                     token |-> token, proof_hash |-> proof_hash,
                     duration |-> duration, ident |-> EmptyIdent,
                     result |-> [status |-> "verified", assigned_multiplier |-> score,
                                 tier |-> IF score > 300 THEN "High Performance"
                                          ELSE "Standard"]]]
    /\ UNCHANGED <<transactions, now, tickets>>

\* submit_proof round trip by round trip, for requests that overlap.
\* lines 289-300: redis GET challenge:<token>, the two checks, the multiplier
sp_get(p, node_id, token, proof_hash, duration) ==
    /\ Free(p) /\ Begin
    /\ IF ~Live(ChallengeKey(token))
       THEN ProofError(p, node_id, token, proof_hash, "Challenge expired or invalid")
       ELSE IF Len(proof_hash) # 64
       THEN ProofError(p, node_id, token, proof_hash, "Invalid hash format")
       ELSE /\ req' = [req EXCEPT ![p] =
                         [op |-> "verify", pc |-> "sp_commit", node_id |-> node_id,
                          token |-> token, proof_hash |-> proof_hash,
                          duration |-> duration, ident |-> EmptyIdent,
                          result |-> Result("none")]]
            /\ UNCHANGED <<users, nodes, kv, hist>>
    /\ UNCHANGED <<transactions, now, tickets>>

\* lines 302-330: the upsert of the Node row and its commit
sp_commit(p) ==
    /\ req[p].op = "verify" /\ req[p].pc = "sp_commit"
    /\ LET node_id == req[p].node_id
           score == calculate_multiplier(req[p].duration)
           existing == {pk \in AllKeys : users[pk].exists}
       IN  \E owner \in (IF existing = {} THEN {SystemKey} ELSE existing) :
              /\ users' = IF ~nodes[node_id].exists /\ existing = {}
                          THEN [users EXCEPT ![SystemKey] = UserRow(0)] ELSE users
              /\ nodes' = [nodes EXCEPT ![node_id] =
                              UpsertNode(node_id, owner, score, req[p].duration)]
    /\ req' = [req EXCEPT ![p].pc = "sp_delete"]
    /\ UNCHANGED <<transactions, calls, kv, now, tickets, hist>>

\* lines 333-342: redis DELETE challenge:<token>, whose answer is not looked at,
\* and the verified response
sp_delete(p) ==
    /\ req[p].op = "verify" /\ req[p].pc = "sp_delete"
    /\ kv' = [kv EXCEPT ![ChallengeKey(req[p].token)] = NoKey]
    /\ hist' = [hist EXCEPT !.challenge[req[p].token].consumed = TRUE]
    /\ LET score == calculate_multiplier(req[p].duration)
       IN  req' = [req EXCEPT ![p] =
                     [@ EXCEPT !.pc = "done",
                               !.result = [status |-> "verified",
                                           assigned_multiplier |-> score,
                                           tier |-> IF score > 300 THEN "High Performance"
                                                    ELSE "Standard"]]]
    /\ UNCHANGED <<users, nodes, transactions, calls, now, tickets>>

-----------------------------------------------------------------------------
(* main.py receive_heartbeat (214-226) and list_peers (232-256) *)

\* the NodeHeartbeat payloads node node_id may send
Payloads(node_id) ==
    {[node_id |-> node_id, tailscale_ip |-> "100.64.0." \o node_id,
      status |-> st, models |-> ms] : st \in Statuses, ms \in ModelSets}

NodeKeys == {NodeKey(n) : n \in NodeIds}

\* line 223: redis SET node:<id> <json>; a plain SET stores the key without expiry
\* and drops the expiry it had
receive_heartbeat(p, data) ==
    /\ Free(p) /\ Begin
    /\ kv' = [kv EXCEPT ![NodeKey(data.node_id)] =
                 [present |-> TRUE, val |-> data, exp |-> NoTTL]]
    /\ req' = [req EXCEPT ![p] =
                 [op |-> "heartbeat", pc |-> "hb_expire", key |-> NodeKey(data.node_id),
                  ident |-> EmptyIdent, result |-> Result("none")]]
    /\ hist' = [hist EXCEPT !.heartbeat_at[data.node_id] = now]
    /\ UNCHANGED <<users, nodes, transactions, now, tickets>>

\* line 224: redis EXPIRE node:<id> 15, the second round trip; line 226
hb_expire(p) ==
    /\ req[p].pc = "hb_expire"
    /\ kv' = IF Live(req[p].key)
             THEN [kv EXCEPT ![req[p].key].exp = now + HEARTBEAT_TTL]
             ELSE kv
    /\ req' = [req EXCEPT ![p] = [op |-> "heartbeat", pc |-> "done",
                                  ident |-> EmptyIdent, result |-> Result("seen")]]
    /\ UNCHANGED <<users, nodes, transactions, calls, now, tickets, hist>>

\* the request ends between lines 223 and 224: the process is killed, or the
\* EXPIRE round trip raises a connection error
hb_crash(p) ==
    /\ req[p].pc = "hb_expire"
    /\ req' = [req EXCEPT ![p] = [op |-> "heartbeat", pc |-> "done",
                                  ident |-> EmptyIdent, result |-> Result("crashed")]]
    /\ UNCHANGED <<users, nodes, transactions, calls, kv, now, tickets, hist>>

\* the filter of list_peers without its status test
PeerListed_any_status(node, model) == model = Null \/ model \in node.models

\* lines 244-253: the filter of list_peers over the values MGET returned
PeerListed(node, model) ==
    /\ node.status = "IDLE"
    /\ model = Null \/ model \in node.models

\* line 236: redis KEYS node:*; no key: lines 237, 256
list_peers(p, model) ==
    /\ Free(p) /\ Begin
    /\ LET keys == {k \in NodeKeys : Live(k)}
       IN  req' = [req EXCEPT ![p] =
                     IF keys = {}
                     THEN [op |-> "peers", pc |-> "done", ident |-> EmptyIdent,
                           result |-> [count |-> 0, nodes |-> {}]]
                     ELSE [op |-> "peers", pc |-> "lp_mget", model |-> model,
                           keys |-> keys, ident |-> EmptyIdent,
                           result |-> Result("none")]]
    /\ UNCHANGED <<users, nodes, transactions, kv, now, tickets, hist>>

\* list_peers without the test of line 243: json.loads(None) raises TypeError
\* when a key of the enumeration has expired
lp_mget_unguarded(p) ==
    /\ req[p].pc = "lp_mget"
    /\ LET raw_nodes == {kv[k].val : k \in {x \in req[p].keys : Live(x)}}
           listed == {node \in raw_nodes : PeerListed(node, req[p].model)}
       IN  req' = [req EXCEPT ![p] =
                     [op |-> "peers", pc |-> "done", ident |-> EmptyIdent,
                      result |-> IF \E k \in req[p].keys : ~Live(k)
                                 THEN [status |-> "500", detail |-> "TypeError"]
                                 ELSE [count |-> Cardinality(listed), nodes |-> listed]]]
    /\ UNCHANGED <<users, nodes, transactions, calls, kv, now, tickets, hist>>

\* lines 240-256: redis MGET keys; a key that expired since KEYS comes back None
lp_mget(p) ==
    /\ req[p].pc = "lp_mget"
    /\ LET raw_nodes == {kv[k].val : k \in {x \in req[p].keys : Live(x)}}
           listed == {node \in raw_nodes : PeerListed(node, req[p].model)}
       IN  req' = [req EXCEPT ![p] =
                     [op |-> "peers", pc |-> "done", ident |-> EmptyIdent,
                      result |-> [count |-> Cardinality(listed), nodes |-> listed]]]
    /\ UNCHANGED <<users, nodes, transactions, calls, kv, now, tickets, hist>>

(* main.py list_models (524-547) *)

\* the models of /v1/models runs, and Python's order of their names
CatalogModels == {"llama", "mistral"}
ModelRank == "llama" :> 1 @@ "mistral" :> 2

\* the NodeHeartbeat payloads of /v1/models runs
CatalogPayloads(node_id) ==
    {[node_id |-> node_id, tailscale_ip |-> "100.64.0." \o node_id,
      status |-> st, models |-> ms] : st \in Statuses, ms \in SUBSET CatalogModels}

\* an aggregation that skips the nodes that are not IDLE
UniqueModels_idle_only(raw_nodes) ==
    UNION {node.models : node \in {n \in raw_nodes : n.status = "IDLE"}}

\* lines 530, 534-537: unique_models.update(node.get("models", [])) over the
\* values MGET returned
UniqueModels(raw_nodes) == UNION {node.models : node \in raw_nodes}

\* line 543: sorted(unique_models)
RECURSIVE sorted(_)
sorted(models) ==
    IF models = {} THEN <<>>
    ELSE LET first == CHOOSE m \in models :
                         \A other \in models : ModelRank[m] <= ModelRank[other]
         IN  <<first>> \o sorted(models \ {first})

\* lines 539-545: the response body
ModelList(models) ==
    [object |-> "list",
     data |-> [i \in 1..Len(sorted(models)) |->
                 [id |-> sorted(models)[i], object |-> "model",
                  owned_by |-> "monkey-troop"]]]

\* line 529: redis KEYS node:*; no key: lines 532, 539-545
list_models(p) ==
    /\ Free(p) /\ Begin
    /\ LET keys == {k \in NodeKeys : Live(k)}
       IN  req' = [req EXCEPT ![p] =
                     IF keys = {}
                     THEN [op |-> "models", pc |-> "done", ident |-> EmptyIdent,
                           result |-> ModelList({})]
                     ELSE [op |-> "models", pc |-> "lm_mget", keys |-> keys,
                           ident |-> EmptyIdent, result |-> Result("none")]]
    /\ UNCHANGED <<users, nodes, transactions, kv, now, tickets, hist>>

\* lines 533-545: redis MGET keys; a key that expired since KEYS comes back None
lm_mget(p) ==
    /\ req[p].pc = "lm_mget"
    /\ LET raw_nodes == {kv[k].val : k \in {x \in req[p].keys : Live(x)}}
       IN  req' = [req EXCEPT ![p] =
                     [op |-> "models", pc |-> "done", ident |-> EmptyIdent,
                      result |-> ModelList(UniqueModels(raw_nodes))]]
    /\ UNCHANGED <<users, nodes, transactions, calls, kv, now, tickets, hist>>

\* d seconds pass; Redis drops the keys whose expiry has come
Tick(d, until) ==
    /\ now + d <= until
    /\ now' = now + d
    /\ kv' = [k \in DOMAIN kv |->
                IF kv[k].present /\ kv[k].exp # NoTTL /\ kv[k].exp <= now'
                THEN NoKey ELSE kv[k]]
    /\ UNCHANGED <<users, nodes, transactions, req, calls, tickets, hist>>

-----------------------------------------------------------------------------
(* rate_limit.py check_rate_limit (17-42), middleware.py dispatch (17-58) *)

\* middleware.py:19, 26, 41 and rate_limit.py:44-52: the counter a path is checked
\* against; limit 0 stands for a path that is not rate limited
Bucket(path) ==
    IF path \in {"/heartbeat", "/peers", "/v1/models"}
    THEN [key |-> RateKey("discovery", ClientIp), limit |-> DISCOVERY_LIMIT]
    ELSE IF path \in {"/authorize"}
    THEN [key |-> RateKey("inference", ClientIp), limit |-> INFERENCE_LIMIT]
    ELSE [key |-> Null, limit |-> 0]

RateResult(allowed, remaining) == [allowed |-> allowed, remaining |-> remaining]

\* how far the counter has moved since request q read it at line 28
Lag(q) == (IF Live(req[q].key) THEN kv[req[q].key].val ELSE 0) - req[q].current

\* dispatch up to rate_limit.py:28, redis GET key, and the branch on its answer
\* (lines 30, 37-38); a run's requests address one bucket
rl_get(p, path) ==
    /\ Free(p)
    /\ \A q \in Procs \ {p} : req[q].pc \in {"rl_setex", "rl_incr"} => Lag(q) < MaxLag
    /\ LET b == Bucket(path)
       IN  IF b.key = Null
           THEN req' = [req EXCEPT ![p] =
                          [op |-> "dispatch", pc |-> "done", ident |-> EmptyIdent,
                           result |-> Result("next")]]
           ELSE /\ \A k \in RateKeys \ {b.key} : ~kv[k].present
                /\ req' = [req EXCEPT ![p] =
                     [op |-> "dispatch", ident |-> EmptyIdent, key |-> b.key,
                      path |-> path, limit |-> b.limit,
                      current |-> IF Live(b.key) THEN kv[b.key].val ELSE 0,
                      pc |-> IF ~Live(b.key) THEN "rl_setex"
                             ELSE IF kv[b.key].val >= b.limit THEN "rl_dispatch"
                             ELSE "rl_incr",
                      result |-> IF Live(b.key) /\ kv[b.key].val >= b.limit
                                 THEN RateResult(FALSE, 0)
                                 ELSE Result("none")]]
    /\ UNCHANGED <<users, nodes, transactions, calls, kv, now, tickets, hist>>

\* lines 32-33: redis SETEX key 3600 1
rl_setex(p) ==
    /\ req[p].pc = "rl_setex"
    /\ kv' = [kv EXCEPT ![req[p].key] =
                 [present |-> TRUE, val |-> 1, exp |-> now + WINDOW_SECONDS]]
    /\ req' = [req EXCEPT ![p].pc = "rl_dispatch",
                          ![p].result = RateResult(TRUE, req[p].limit - 1)]
    /\ hist' = [hist EXCEPT !.allowed[req[p].key] = @ + 1]
    /\ UNCHANGED <<users, nodes, transactions, calls, now, tickets>>

\* an increment that reports the remaining requests one too high
rl_incr_remaining_off(p) ==
    /\ req[p].pc = "rl_incr"
    /\ kv' = [kv EXCEPT ![req[p].key] =
                 IF Live(req[p].key) THEN [@ EXCEPT !.val = @ + 1]
                 ELSE [present |-> TRUE, val |-> 1, exp |-> NoTTL]]
    /\ req' = [req EXCEPT ![p].pc = "rl_dispatch",
                          ![p].result = RateResult(TRUE, req[p].limit - req[p].current)]
    /\ hist' = [hist EXCEPT !.allowed[req[p].key] = @ + 1]
    /\ UNCHANGED <<users, nodes, transactions, calls, now, tickets>>

\* lines 41-42: redis INCR key; INCR of a key that is gone stores 1 without expiry
rl_incr(p) ==
    /\ req[p].pc = "rl_incr"
    /\ kv' = [kv EXCEPT ![req[p].key] =
                 IF Live(req[p].key) THEN [@ EXCEPT !.val = @ + 1]
                 ELSE [present |-> TRUE, val |-> 1, exp |-> NoTTL]]
    /\ req' = [req EXCEPT ![p].pc = "rl_dispatch",
                          ![p].result = RateResult(TRUE, req[p].limit - req[p].current - 1)]
    /\ hist' = [hist EXCEPT !.allowed[req[p].key] = @ + 1]
    /\ UNCHANGED <<users, nodes, transactions, calls, now, tickets>>

\* audit.py:79-87: the event log_rate_limit writes
RateLimitEvent(ip_address, endpoint, limit, window) ==
    [event |-> "rate_limit", endpoint |-> endpoint, limit |-> limit, window |-> window]

\* middleware.py:30-39 and 45-54: the audit call and the 429 response of the
\* branch the path belongs to, with the numbers the branch writes out
TooManyRequests(path) ==
    LET written == IF path \in {"/heartbeat", "/peers", "/v1/models"} THEN 100 ELSE 20
    IN  [status |-> "429", retry_after |-> "3600",
         audit |-> <<RateLimitEvent(ClientIp, path, written, 3600)>>]

\* middleware.py:29-58: answer 429 or hand the request to the next layer
rl_dispatch(p) ==
    /\ req[p].pc = "rl_dispatch"
    /\ req' = [req EXCEPT ![p] =
                 [op |-> "dispatch", pc |-> "done", ident |-> EmptyIdent,
                  result |-> IF req[p].result.allowed THEN Result("next")
                             ELSE TooManyRequests(req[p].path)]]
    /\ UNCHANGED <<users, nodes, transactions, calls, kv, now, tickets, hist>>

\* a whole window of 3600 s passes: Redis drops the counters whose expiry has come
WindowEnds ==
    /\ now < MaxWindows * WINDOW_SECONDS
    /\ now' = now + WINDOW_SECONDS
    /\ kv' = [k \in DOMAIN kv |->
                IF kv[k].present /\ kv[k].exp # NoTTL /\ kv[k].exp <= now'
                THEN NoKey ELSE kv[k]]
    /\ hist' = [hist EXCEPT !.allowed = [k \in RateKeys |-> 0]]
    /\ UNCHANGED <<users, nodes, transactions, req, calls, tickets>>

-----------------------------------------------------------------------------
(* auth.py create_jwt_ticket (13-37) and verify_jwt_ticket (40-60) *)

PrivateKey == "coordinator-private-key"

\* jwt.encode's signature part: the RS256 signature of the claims under key
Sign(claims, key) == <<ALGORITHM, key, claims>>

\* lines 25-37; jose writes exp as whole seconds since the epoch
Ticket(user_id, target_node_id, project, at) ==
    LET payload == [sub |-> user_id, target_node |-> target_node_id,
                    aud |-> "troop-worker",
                    exp |-> at + ACCESS_TOKEN_EXPIRE_MINUTES * 60,
                    project |-> project]
    IN  [claims |-> payload, signature |-> Sign(payload, PrivateKey)]

\* lines 49-60: jose's jwt.decode checks the signature under the public key, then
\* exp (it raises ExpiredSignatureError when exp < now, in whole seconds), then
\* aud; every JWTError is answered with None
Decode(token, at) ==
    IF token.signature # Sign(token.claims, PrivateKey) THEN "None"
    ELSE IF token.claims.exp < at THEN "None"
    ELSE IF token.claims.aud # "troop-worker" THEN "None"
    ELSE "payload"

create_jwt_ticket(p, user_id, target_node_id) ==
    /\ Free(p) /\ Begin
    /\ LET token == Ticket(user_id, target_node_id, "free-tier", now)
       IN  /\ tickets' = tickets \cup {token}
           /\ req' = [req EXCEPT ![p] =
                        [op |-> "mint", pc |-> "done", ident |-> EmptyIdent,
                         token |-> token, result |-> Result("token")]]
    /\ UNCHANGED <<users, nodes, transactions, kv, now, hist>>

\* what a client can present in place of a ticket it holds: the ticket with one
\* claim changed, the ticket re-signed with a key of its own, and a token the
\* coordinator's key signed for another audience
Altered(token) ==
    {[token EXCEPT !.claims.exp = @ + 60],
     [token EXCEPT !.claims.target_node = "n9"],
     [token EXCEPT !.claims.sub = "u9"],
     [token EXCEPT !.claims.aud = "other"],
     [token EXCEPT !.signature = Sign(token.claims, "client-key")],
     [claims |-> [token.claims EXCEPT !.aud = "other"],
      signature |-> Sign([token.claims EXCEPT !.aud = "other"], PrivateKey)]}

\* the tokens clients can send to a worker
Presentable == UNION {{t} \cup Altered(t) : t \in tickets}

verify_jwt_ticket(p, token) ==
    /\ Free(p) /\ Begin
    /\ req' = [req EXCEPT ![p] =
                 [op |-> "verify_ticket", pc |-> "done", ident |-> EmptyIdent,
                  token |-> token, result |-> Result(Decode(token, now))]]
    /\ UNCHANGED <<users, nodes, transactions, kv, now, tickets, hist>>

-----------------------------------------------------------------------------
(* main.py authorize_request, lines 348-421 *)

\* log_authorization dropping the reason it is given
AuthorizationEvent_no_reason(requester_id, model, node_id, success, reason) ==
    [event |-> "authorization", requester_id |-> requester_id, model |-> model,
     node_id |-> node_id, success |-> success, reason |-> Null]

\* audit.py:39-56: the event log_authorization writes
AuthorizationEvent(requester_id, model, node_id, success, reason) ==
    [event |-> "authorization", requester_id |-> requester_id, model |-> model,
     node_id |-> node_id, success |-> success, reason |-> reason]

\* a request that ends with HTTPException(status_code, detail)
AzError(p, status_code, detail, events) ==
    req' = [req EXCEPT ![p] =
              [op |-> "authorize", pc |-> "done", pk |-> req[p].pk,
               model |-> req[p].model, ident |-> EmptyIdent, audit |-> events,
               result |-> [status |-> status_code, detail |-> detail]]]

\* the candidate filter without its status test
Candidate_any_status(node, model) == model \in node.models

\* lines 375-384: the candidates among the values MGET returned
Candidate(node, model) == node.status = "IDLE" /\ model \in node.models

\* lines 348-361: the handler is entered and calls create_user_if_not_exists
authorize_request(p, model, requester) ==
    /\ Free(p) /\ Begin
    /\ req' = [req EXCEPT ![p] =
                 [op |-> "authorize", pc |-> "eu_query", pk |-> requester,
                  eu_pk |-> requester, model |-> model, ident |-> EmptyIdent,
                  audit |-> <<>>, result |-> Result("none")]]
    /\ UNCHANGED <<users, nodes, transactions, kv, now, tickets, hist>>

\* lines 364-372: check_sufficient_balance on the handler's session
az_check(p) ==
    /\ req[p].pc = "az_check"
    /\ LET b == QueryUser(req[p].ident, req[p].pk) IN
       IF ~(b.balance >= ESTIMATED_JOB_DURATION)
       THEN AzError(p, "402", "Insufficient credits",
                    <<AuthorizationEvent(req[p].pk, req[p].model, "none", FALSE,
                                         "insufficient_credits")>>)
       ELSE req' = [req EXCEPT ![p] =
                      [@ EXCEPT !.pc = "az_keys",
                                !.ident = [@ EXCEPT ![req[p].pk] = Loaded(b.balance)]]]
    /\ UNCHANGED <<users, nodes, transactions, calls, kv, now, tickets, hist>>

\* the 503 answer without its audit event
NoNodes_unaudited(p) == AzError(p, "503", "No idle nodes found for model", <<>>)

\* lines 386-394
NoNodes(p) ==
    AzError(p, "503", "No idle nodes found for model",
            <<AuthorizationEvent(req[p].pk, req[p].model, "none", FALSE,
                                 "no_nodes_available")>>)

\* line 375: redis KEYS node:*
az_keys(p) ==
    /\ req[p].pc = "az_keys"
    /\ LET keys == {k \in NodeKeys : Live(k)} IN
       IF keys = {} THEN NoNodes(p)
       ELSE req' = [req EXCEPT ![p] = [@ EXCEPT !.pc = "az_mget"] @@ [keys |-> keys]]
    /\ UNCHANGED <<users, nodes, transactions, calls, kv, now, tickets, hist>>

\* lines 379-397: redis MGET keys, the candidate filter and random.choice, which
\* runs on MGET's answer before the next round trip
az_mget(p) ==
    /\ req[p].pc = "az_mget"
    /\ LET raw_nodes == {kv[k].val : k \in {x \in req[p].keys : Live(x)}}
           candidates == {node \in raw_nodes : Candidate(node, req[p].model)}
       IN  IF candidates = {} THEN NoNodes(p)
           ELSE \E selected \in candidates :
                   req' = [req EXCEPT ![p] =
                             [@ EXCEPT !.pc = "az_reserve"] @@ [selected |-> selected]]
    /\ UNCHANGED <<users, nodes, transactions, calls, kv, now, tickets, hist>>

\* lines 399-401: reserve_credits on the handler's session, whose query at
\* transactions.py:71 finds the User the session already holds
az_reserve(p) ==
    /\ req[p].pc = "az_reserve"
    /\ LET b == ReserveCheck(req[p].ident, req[p].pk, ESTIMATED_JOB_DURATION) IN
       IF ~b.ok
       THEN /\ AzError(p, "402", "Failed to reserve credits", <<>>)
            /\ UNCHANGED users
       ELSE /\ users' = [users EXCEPT ![req[p].pk].balance_seconds =
                            ReserveWrite(b.balance, ESTIMATED_JOB_DURATION)]
            /\ req' = [req EXCEPT ![p] =
                         [@ EXCEPT !.pc = "az_ticket", !.ident = EmptyIdent]]
    /\ UNCHANGED <<nodes, transactions, calls, kv, now, tickets, hist>>

\* lines 404-421: mint the ticket, log the authorization, answer 200
az_ticket(p) ==
    /\ req[p].pc = "az_ticket"
    /\ LET token == Ticket(req[p].pk, req[p].selected.node_id, "free-tier", now)
       IN  /\ tickets' = tickets \cup {token}
           /\ req' = [req EXCEPT ![p] =
                [op |-> "authorize", pc |-> "done", pk |-> req[p].pk,
                 model |-> req[p].model, ident |-> EmptyIdent,
                 audit |-> <<AuthorizationEvent(req[p].pk, req[p].model,
                                                req[p].selected.node_id, TRUE, Null)>>,
                 result |-> [status |-> "200",
                             target_ip |-> req[p].selected.tailscale_ip,
                             token |-> token,
                             estimated_cost |-> ESTIMATED_JOB_DURATION]]]
    /\ UNCHANGED <<users, nodes, transactions, calls, kv, now, hist>>

-----------------------------------------------------------------------------
(* main.py submit_job_completion (424-458), audit.py log_transaction (59-76) and
   log_security_event (90-98) *)

\* Python values as the audit functions receive them
PyStr(s) == [type |-> "str", value |-> s]
PyDict(d) == [type |-> "dict", value |-> d]

\* audit.py:59-76: the event log_transaction writes
log_transaction(job_id, requester_id, worker_id, duration, credits, ip_address) ==
    [raised |-> "None",
     events |-> <<[event |-> "transaction", job_id |-> job_id,
                   requester_id |-> requester_id, worker_id |-> worker_id,
                   duration |-> duration, credits |-> credits]>>]

\* audit.py:90-98: log_data = {"event": "security", "type": event_type, **details}
\* is the first statement; unpacking a value that is not a mapping raises
\* TypeError before anything is written
log_security_event(event_type, ip_address, details) ==
    IF details.type # "dict"
    THEN [raised |-> "TypeError", events |-> <<>>]
    ELSE [raised |-> "None",
          events |-> <<details.value @@ [event |-> "security", type |-> event_type]>>]

\* main.py:441-458, once record_job_completion has returned or raised: the audit
\* call and the response. Line 452 passes ("invalid_receipt", {job_id, reason},
\* client_ip) to log_security_event(event_type, ip_address, details). An
\* exception leaves the handler as a 500 without a body.
submit_job_completion(p) ==
    /\ req[p].op = "settle" /\ req[p].pc = "done"
    /\ LET r == req[p]
           logged ==
               IF r.result.status = "TypeError"
               THEN [raised |-> "TypeError", events |-> <<>>]
               ELSE IF r.result.status = "success"
               THEN log_transaction(r.job_id, r.pk, r.node_id, r.duration,
                                    r.result.credits_transferred, ClientIp)
               ELSE log_security_event("invalid_receipt",
                                       PyDict([job_id |-> r.job_id,
                                               reason |-> r.result.message]),
                                       PyStr(ClientIp))
       IN req' = [req EXCEPT ![p] =
                    [op |-> "submit", pc |-> "done", ident |-> EmptyIdent,
                     job_id |-> r.job_id, pk |-> r.pk, node_id |-> r.node_id,
                     result |-> r.result, audit |-> logged.events,
                     status_code |-> IF logged.raised = "None" THEN "200" ELSE "500"]]
    /\ UNCHANGED <<users, nodes, transactions, calls, kv, now, tickets, hist>>

-----------------------------------------------------------------------------
(* main.py 29-55 the middleware stack; timeout_middleware.py; middleware.py;
   audit.py 24-36 and 79-87 *)

\* the endpoints a request of this part addresses
PipelinePaths == {"/heartbeat", "/health"}

\* the clock's values while requests cross the stack: a 5 s deadline is met at
\* 5 s and missed at 6 s
MaxPipelineTime == 6
PipelineTimes == {0, 5, 6}

\* the heartbeat a worker posts in this part
PipelineBeats ==
    {[node_id |-> "n1", tailscale_ip |-> "100.64.0.n1", status |-> "IDLE",
      models |-> {"llama"}]}

\* what can go wrong in the audit sink while one event is written
SinkModes == {"ok", "file_write_fails", "insert_fails", "session_fails"}

\* timeout_middleware.py:24
DEFAULT_TIMEOUT == 30

\* timeout_middleware.py:10-22
ENDPOINT_TIMEOUTS ==
    [k \in {"/health", "/public-key", "/v1/models", "/peers", "/heartbeat", "/users/"} |-> 5]
    @@ [k \in {"/authorize", "/hardware/challenge", "/hardware/verify",
               "/transactions/submit"} |-> 30]

\* timeout_middleware.py:68-80; of the addressed paths every one has an exact
\* entry, so the prefix loop of lines 75-77 finds nothing the table lacks
_get_timeout(path) ==
    IF path \in DOMAIN ENDPOINT_TIMEOUTS THEN ENDPOINT_TIMEOUTS[path] ELSE DEFAULT_TIMEOUT

\* a registration that appends, so that the class registered first is outermost
add_middleware_append(user_middleware_, cls) == user_middleware_ \o <<cls>>

\* FastAPI.add_middleware as main.py calls it: Starlette puts the class at the
\* front of user_middleware, and builds the stack so that the front is outermost
add_middleware(user_middleware_, cls) == <<cls>> \o user_middleware_

\* main.py:36, 49, 51, 54, 55, in the order of the calls; position 1 is the
\* outermost layer, the handler sits behind the last position
user_middleware ==
    add_middleware(
      add_middleware(
        add_middleware(
          add_middleware(
            add_middleware(<<>>, "CORSMiddleware"),
            "TimeoutMiddleware"),
          "TimeoutMiddleware"),
        "RequestTracingMiddleware"),
      "RateLimitMiddleware")

Layers == 1..Len(user_middleware)

NoResponse == [status |-> "none", headers |-> {}]

\* audit.py:24-36: the session is opened inside the try, every exception of the
\* insert is logged and dropped, and the finally clause closes db; when
\* SessionLocal() itself raised, db was never bound and db.close() raises
\* UnboundLocalError out of the function
_write_to_db(sink) == IF sink = "session_fails" THEN "UnboundLocalError" ELSE "None"

\* audit.py:79-87: the file write goes through logging, whose handlers report an
\* I/O error on stderr and return; then the row insert
log_rate_limit(sink, ip_address, endpoint, limit, window) ==
    [raised |-> _write_to_db(sink),
     file |-> IF sink = "file_write_fails" THEN <<>>
              ELSE <<RateLimitEvent(ip_address, endpoint, limit, window)>>,
     rows |-> IF sink \in {"insert_fails", "session_fails"} THEN <<>>
              ELSE <<RateLimitEvent(ip_address, endpoint, limit, window)>>]

\* a request arrives at the outermost layer
http_request(p, path) ==
    /\ Free(p) /\ Begin
    /\ req' = [req EXCEPT ![p] =
                 [op |-> "request", pc |-> "call", ident |-> EmptyIdent,
                  result |-> Result("none"), path |-> path, key |-> Null, layer |-> 1,
                  started |-> [i \in Layers |-> 0], trail |-> <<>>,
                  refused |-> FALSE, sink |-> "ok", response |-> NoResponse]]
    /\ UNCHANGED <<users, nodes, transactions, kv, now, tickets, hist>>

\* the response leaves layer i - 1 towards the client
Outwards(r, i, response) ==
    IF i = 1
    THEN [r EXCEPT !.pc = "done", !.layer = 0, !.response = response,
                   !.result = Result(response.status)]
    ELSE [r EXCEPT !.pc = "return", !.layer = i - 1, !.response = response]

\* the request leaves layer i towards the handler
Inwards(r, i) ==
    IF i = Len(user_middleware)
    THEN [r EXCEPT !.pc = "handler", !.layer = i + 1, !.trail = Append(@, "handler")]
    ELSE [r EXCEPT !.layer = i + 1]

\* dispatch of the layer the request stands at, up to its call_next:
\* middleware.py:17-57 (the rate decision of rate_limit.py:17-42 taken in one step),
\* middleware.py:64-75, timeout_middleware.py:33-45; CORSMiddleware passes a
\* request without an Origin header on
mw_call(p) ==
    /\ req[p].op = "request" /\ req[p].pc = "call"
    /\ LET i == req[p].layer
           cls == user_middleware[i]
           path == req[p].path
           b == Bucket(path)
           r == [req[p] EXCEPT !.trail = Append(@, cls),
                               !.started[i] = IF cls = "TimeoutMiddleware" THEN now ELSE @]
       IN  IF cls = "RateLimitMiddleware" /\ b.key # Null
           THEN IF ~Live(b.key)
                THEN /\ kv' = [kv EXCEPT ![b.key] =
                                 [present |-> TRUE, val |-> 1,
                                  exp |-> now + WINDOW_SECONDS]]
                     /\ req' = [req EXCEPT ![p] = Inwards(r, i)]
                ELSE IF kv[b.key].val < b.limit
                THEN /\ kv' = [kv EXCEPT ![b.key].val = @ + 1]
                     /\ req' = [req EXCEPT ![p] = Inwards(r, i)]
                ELSE /\ kv' = kv
                     /\ \E sink \in SinkModes :
                          LET logged == log_rate_limit(sink, ClientIp, path,
                                                       b.limit, WINDOW_SECONDS)
                              refusal == [r EXCEPT !.refused = TRUE, !.sink = sink]
                          IN  req' = [req EXCEPT ![p] =
                                 IF logged.raised = "None"
                                 THEN Outwards(refusal, i,
                                               [status |-> "429",
                                                headers |-> {"Retry-After"}])
                                 ELSE [refusal EXCEPT
                                         !.pc = "done", !.layer = 0,
                                         !.response = [status |-> "500", headers |-> {}],
                                         !.result = Result("500")]]
           ELSE /\ kv' = kv
                /\ req' = [req EXCEPT ![p] = Inwards(r, i)]
    /\ UNCHANGED <<users, nodes, transactions, calls, now, tickets, hist>>

\* main.py:196-198 /health, and main.py:220-223 /heartbeat up to the SET; the
\* bodies hold no await, so the event loop runs nothing else until they return
handler(p) ==
    /\ req[p].op = "request" /\ req[p].pc = "handler"
    /\ IF req[p].path = "/heartbeat"
       THEN \E data \in PipelineBeats :
              /\ kv' = [kv EXCEPT ![NodeKey(data.node_id)] =
                           [present |-> TRUE, val |-> data, exp |-> NoTTL]]
              /\ req' = [req EXCEPT ![p].pc = "handler_expire",
                                    ![p].key = NodeKey(data.node_id)]
       ELSE /\ kv' = kv
            /\ req' = [req EXCEPT ![p] =
                         Outwards(req[p], Len(user_middleware) + 1,
                                  [status |-> "200", headers |-> {}])]
    /\ UNCHANGED <<users, nodes, transactions, calls, now, tickets, hist>>

\* main.py:224-226: the EXPIRE round trip and the answer of /heartbeat
handler_expire(p) ==
    /\ req[p].op = "request" /\ req[p].pc = "handler_expire"
    /\ kv' = IF Live(req[p].key)
             THEN [kv EXCEPT ![req[p].key].exp = now + HEARTBEAT_TTL]
             ELSE kv
    /\ req' = [req EXCEPT ![p] =
                 Outwards(req[p], Len(user_middleware) + 1,
                          [status |-> "200", headers |-> {}])]
    /\ UNCHANGED <<users, nodes, transactions, calls, now, tickets, hist>>

\* dispatch of the layer the response comes back to, after its call_next:
\* timeout_middleware.py:47-66 (wait_for acts on its timer when the handler's
\* task gives the event loop back), middleware.py:77-82 and 57-58
mw_return(p) ==
    /\ req[p].op = "request" /\ req[p].pc = "return"
    /\ LET i == req[p].layer
           cls == user_middleware[i]
           inner == req[p].response
           outer ==
             IF cls = "TimeoutMiddleware"
             THEN IF now - req[p].started[i] > _get_timeout(req[p].path)
                  THEN [status |-> "504", headers |-> {"X-Timeout-Ms"}]
                  ELSE [inner EXCEPT !.headers = @ \cup {"X-Timeout-Ms"}]
             ELSE IF cls = "RequestTracingMiddleware"
             THEN [inner EXCEPT !.headers = @ \cup {"X-Request-ID", "X-Response-Time"}]
             ELSE inner
       IN  req' = [req EXCEPT ![p] = Outwards(req[p], i, outer)]
    /\ UNCHANGED <<users, nodes, transactions, calls, kv, now, tickets, hist>>

-----------------------------------------------------------------------------
(* streaming.py stream_chat_completion, lines 7-30 *)

MaxChunks == 2                              \* chunks of one upstream response
MaxLines == 2                               \* lines of one chunk

\* the lines a chunk is made of, as chunk.decode("utf-8").strip().split("\n")
\* yields them, each with what json.loads does with it (line 19) and, for a value,
\* what json.dumps writes for it (line 21): two objects, a line that is not JSON,
\* the empty line between two newlines, and a JSON number of 5000 digits, which
\* int() refuses with a ValueError that is no JSONDecodeError
StreamLines ==
    {[raw |-> "{\"part1\":1}", loads |-> "value", dumps |-> "{\"part1\": 1}"],
     [raw |-> "{\"part2\": 2}", loads |-> "value", dumps |-> "{\"part2\": 2}"],
     [raw |-> "invalid json", loads |-> "JSONDecodeError", dumps |-> ""],
     [raw |-> "", loads |-> "skipped", dumps |-> ""],
     [raw |-> "11111...(5000 digits)", loads |-> "ValueError", dumps |-> ""]}

RECURSIVE SeqsUpTo(_, _)
SeqsUpTo(S, n) ==
    IF n = 0 THEN {<<>>}
    ELSE LET shorter == SeqsUpTo(S, n - 1)
         IN  shorter \cup {Append(q, x) : q \in shorter, x \in S}

\* a chunk: bytes that decode to lines, or bytes that are not UTF-8
StreamChunks ==
    {[decodes |-> TRUE, lines |-> ls] : ls \in SeqsUpTo(StreamLines, MaxLines)}
        \cup {[decodes |-> FALSE, lines |-> <<>>]}

\* line 21: f"data: {json.dumps(data)}\n\n"
SseData(text) == "data: " \o text \o "\n\n"

\* lines 25-26: the event of a parse error
ParseErrorEvent(exception) == SseData("{\"error\": \"Parse error: " \o exception \o "\"}")

\* line 30
DoneEvent == "data: [DONE]\n\n"

\* lines 15-27 for one chunk: [events, raised], the events yielded for it and the
\* exception that left the try statement uncaught ("None" when none did); the
\* except clause of line 23 catches JSONDecodeError and UnicodeDecodeError only
RECURSIVE ChunkEvents(_, _)
ChunkEvents(lines, events) ==
    IF lines = <<>> THEN [events |-> events, raised |-> "None"]
    ELSE LET line == Head(lines) IN
         IF line.loads = "skipped" THEN ChunkEvents(Tail(lines), events)
         ELSE IF line.loads = "value"
         THEN ChunkEvents(Tail(lines), Append(events, SseData(line.dumps)))
         ELSE IF line.loads = "JSONDecodeError"
         THEN [events |-> Append(events, ParseErrorEvent(line.loads)), raised |-> "None"]
         ELSE [events |-> events, raised |-> line.loads]

\* lines 13-27: one turn of the async for loop; an exception nothing catches ends
\* the generator
stream_chat_completion(p) ==
    /\ req[p].op = "stream" /\ req[p].pc = "next_chunk"
    /\ req[p].pos <= Len(req[p].chunks)
    /\ LET chunk == req[p].chunks[req[p].pos]
           body == IF chunk.decodes THEN ChunkEvents(chunk.lines, <<>>)
                   ELSE [events |-> <<ParseErrorEvent("UnicodeDecodeError")>>,
                         raised |-> "None"]
       IN  req' = [req EXCEPT ![p] =
                     [@ EXCEPT !.pos = @ + 1,
                               !.yielded = Append(@, body.events),
                               !.pc = IF body.raised = "None" THEN "next_chunk" ELSE "done",
                               !.result = Result(body.raised)]]
    /\ UNCHANGED <<users, nodes, transactions, calls, kv, now, tickets, hist>>

\* line 30, once response_stream is exhausted
stream_done(p) ==
    /\ req[p].op = "stream" /\ req[p].pc = "next_chunk"
    /\ req[p].pos > Len(req[p].chunks)
    /\ req' = [req EXCEPT ![p] =
                 [@ EXCEPT !.yielded = Append(@, <<DoneEvent>>), !.pc = "done",
                           !.result = Result("StopAsyncIteration")]]
    /\ UNCHANGED <<users, nodes, transactions, calls, kv, now, tickets, hist>>

\* main.py:404-414 when the audit call raises: the ticket is signed,
\* log_authorization writes its line to the file and _write_to_db raises out of
\* it (audit.py:56), the handler ends with the exception and the client is
\* answered 500; nothing gives the reservation of line 400 back
az_audit_raises(p) ==
    /\ req[p].pc = "az_ticket"
    /\ \E sink \in SinkModes :
          /\ _write_to_db(sink) # "None"
          /\ LET token == Ticket(req[p].pk, req[p].selected.node_id, "free-tier", now)
             IN  /\ tickets' = tickets \cup {token}
                 /\ req' = [req EXCEPT ![p] =
                      [op |-> "authorize", pc |-> "done", pk |-> req[p].pk,
                       model |-> req[p].model, ident |-> EmptyIdent,
                       audit |-> <<AuthorizationEvent(req[p].pk, req[p].model,
                                                      req[p].selected.node_id, TRUE, Null)>>,
                       result |-> [status |-> "500", detail |-> _write_to_db(sink)]]]
    /\ UNCHANGED <<users, nodes, transactions, calls, kv, now, hist>>

\* job and node identifiers as the receipt model accepts them (main.py:129-131,
\* any str), some holding the ':' the signed message is joined with
ReceiptJobIds == {"j1", "j1:n1"}
ReceiptNodeIds == {"n1", "n2", "n1:n2"}
ReceiptTriples == ReceiptJobIds \X ReceiptNodeIds \X {200, 300}

\* transactions.py:119-122 on a receipt whose signature the worker made with
\* generate_receipt_signature for the triple `signed` and which is presented
\* to record_job_completion with the triple `presented`
receipt_check(p, signed, presented) ==
    /\ req[p].pc = "done"
    /\ LET signature == generate_receipt_signature(signed[1], signed[2], signed[3])
       IN  req' = [req EXCEPT ![p] =
                     [op |-> "receipt_check", pc |-> "done",
                      signed |-> signed, presented |-> presented,
                      signature |-> signature,
                      result |-> ReceiptCheck(presented[1], presented[2],
                                              presented[3], signature)]]
    /\ UNCHANGED <<users, nodes, transactions, calls, kv, now, tickets, hist>>

-----------------------------------------------------------------------------
(* Specifications *)

ProvisionedNode(owner, multiplier) ==
    [exists |-> TRUE, owner_public_key |-> owner, multiplier |-> multiplier,
     benchmark_score |-> 0, trust_score |-> 0, total_jobs_completed |-> 0]

InitRest ==
    /\ req = [p \in Procs |-> [op |-> "none", pc |-> "done", ident |-> EmptyIdent,
                               result |-> Result("none")]]
    /\ calls = 0
    /\ kv = [k \in Keys |-> NoKey]
    /\ now = 0
    /\ tickets = {}
    /\ hist = [owner_gain |-> 0, heartbeat_at |-> [n \in NodeIds |-> 0],
               allowed |-> [k \in RateKeys |-> 0],
               challenge |-> [t \in Tokens |->
                                [issued |-> FALSE, at |-> 0, consumed |-> FALSE]]]

\* The empty database of a fresh deployment.
Init ==
    /\ users = [pk \in AllKeys |-> NoUser]
    /\ nodes = [n \in NodeIds |-> NoNode]
    /\ transactions = EmptyBag
    /\ InitRest

\* Ledger states the credit engine is entered in: node n1 is registered with a
\* 2.0x multiplier, for an owner who has no users row yet (the nodes table
\* has no foreign key to users, 001_initial_schema.py:36) or for u1, and
\* requester u1 is either unknown or has spent its starter grant down to one
\* reservation.
InitLedger ==
    /\ \E owner \in PublicKeys :
          nodes = [n \in NodeIds |->
                     IF n = "n1" THEN ProvisionedNode(owner, 200) ELSE NoNode]
    /\ \/ /\ users = [pk \in AllKeys |-> NoUser]
          /\ transactions = EmptyBag
       \/ /\ users = [pk \in AllKeys |->
                        IF pk = "u1" THEN UserRow(ESTIMATED_JOB_DURATION) ELSE NoUser]
          /\ transactions = SetToBag({StarterGrant("u1")})
    /\ InitRest

NextLedger(amounts, durations) ==
    \E p \in Procs :
        \/ \E pk \in PublicKeys : ensure_user(p, pk)
        \/ eu_query(p)
        \/ eu_insert(p)
        \/ eu_grant(p)
        \/ \E pk \in PublicKeys, a \in amounts : reserve(p, pk, a)
        \/ rs_commit(p)
        \/ \E pk \in PublicKeys, a \in amounts, j \in JobIds : refund(p, pk, a, j)
        \/ rf_commit(p)
        \/ rf_txn(p)
        \/ \E j \in JobIds, pk \in PublicKeys, n \in NodeIds, d \in durations :
              \E s \in Signatures(j, n) : record_job_completion(p, j, pk, n, d, s)
        \/ st_modify(p)
        \/ st_commit(p)

\* the credit engine called with positive amounts and durations
SpecLedger == InitLedger /\ [][NextLedger(Amounts, Durations)]_vars

\* the credit engine called with every integer its signatures accept
SpecLedgerAnyInt == InitLedger /\ [][NextLedger(AnyAmounts, AnyDurations)]_vars

\* A ledger without users: node n1 is registered, nobody has an account yet.
InitLedgerFresh ==
    /\ \E owner \in PublicKeys :
          nodes = [n \in NodeIds |->
                     IF n = "n1" THEN ProvisionedNode(owner, 200) ELSE NoNode]
    /\ users = [pk \in AllKeys |-> NoUser]
    /\ transactions = EmptyBag
    /\ InitRest

\* no call is under way
Idle == \A q \in Procs : req[q].pc = "done"

\* the credit engine called by one caller, each call after the one before it
\* has returned
NextLedgerSeq ==
    \E p \in Procs :
        \/ Idle /\ \E pk \in PublicKeys : ensure_user(p, pk)
        \/ Idle /\ \E pk \in PublicKeys, a \in Amounts : reserve(p, pk, a)
        \/ Idle /\ \E pk \in PublicKeys, a \in Amounts, j \in JobIds : refund(p, pk, a, j)
        \/ Idle /\ \E j \in JobIds, pk \in PublicKeys, n \in NodeIds, d \in Durations :
                    \E s \in Signatures(j, n) : record_job_completion(p, j, pk, n, d, s)
        \/ eu_query(p)
        \/ eu_insert(p)
        \/ eu_grant(p)
        \/ rs_commit(p)
        \/ rf_commit(p)
        \/ rf_txn(p)
        \/ st_modify(p)
        \/ st_commit(p)

SpecLedgerSeq == InitLedgerFresh /\ [][NextLedgerSeq]_vars

\* POST /transactions/submit: a request runs record_job_completion and then the
\* handler's audit call before the process takes its next request
NextSubmit ==
    \E p \in Procs :
        \/ /\ req[p].op # "settle"
           /\ \E j \in JobIds, pk \in PublicKeys, n \in NodeIds, d \in Durations :
                 \E s \in Signatures(j, n) : record_job_completion(p, j, pk, n, d, s)
        \/ eu_query(p)
        \/ eu_insert(p)
        \/ eu_grant(p)
        \/ st_modify(p)
        \/ st_commit(p)
        \/ submit_job_completion(p)

SpecSubmit == InitLedger /\ [][NextSubmit]_vars

NextProof ==
    \E p \in Procs :
        \/ \E pk \in PublicKeys : ensure_user(p, pk)
        \/ eu_insert(p)
        \/ eu_grant(p)
        \/ \E n \in NodeIds, t \in Tokens : request_challenge(p, n, t)
        \/ \E n \in NodeIds, t \in Tokens, h \in ProofHashes, d \in BenchDurations :
              submit_proof(p, n, t, h, d)

\* challenges, proofs and the clock
NextProofClock ==
    \/ NextProof
    \/ \E t \in ProofTimes : t > now /\ Tick(t - now, MaxProofTime)

SpecProofClock == Init /\ [][NextProofClock]_vars

SpecProof == Init /\ [][NextProof]_vars

NextFleet ==
    \/ \E p \in Procs :
          \/ \E n \in NodeIds : \E data \in Payloads(n) : receive_heartbeat(p, data)
          \/ hb_expire(p)
          \/ hb_crash(p)
          \/ \E model \in Models \cup {Null} : list_peers(p, model)
          \/ lp_mget(p)
    \/ Tick(TickSeconds, MaxTime)

SpecFleet == Init /\ [][NextFleet]_vars

\* heartbeats of nodes that serve any set of the catalog's models, /peers and
\* /v1/models
NextCatalog ==
    \/ \E p \in Procs :
          \/ \E n \in NodeIds : \E data \in CatalogPayloads(n) : receive_heartbeat(p, data)
          \/ hb_expire(p)
          \/ \E model \in CatalogModels : list_peers(p, model)
          \/ lp_mget(p)
          \/ list_models(p)
          \/ lm_mget(p)
    \/ Tick(TickSeconds, MaxTime)

SpecCatalog == Init /\ [][NextCatalog]_vars

NextRate ==
    \/ \E p \in Procs :
          \/ \E path \in Paths : rl_get(p, path)
          \/ rl_setex(p)
          \/ rl_incr(p)
          \/ rl_dispatch(p)
    \/ WindowEnds

SpecRate == Init /\ [][NextRate]_vars

\* requests of one client that arrive one after the other, each within one window
NextRateSeq ==
    \/ \E p \in Procs :
          \/ /\ \A q \in Procs \ {p} : req[q].pc = "done"
             /\ \E path \in SeqPaths : rl_get(p, path)
          \/ rl_setex(p)
          \/ rl_incr(p)
          \/ rl_dispatch(p)
    \/ (\A q \in Procs : req[q].pc = "done") /\ WindowEnds

SpecRateSeq == Init /\ [][NextRateSeq]_vars

\* States /authorize is entered in: requester u1 is unknown or is down to one
\* reservation, and node n1 has just sent a heartbeat, or no node has.
InitAuthorize ==
    /\ nodes = [n \in NodeIds |-> NoNode]
    /\ \/ /\ users = [pk \in AllKeys |-> NoUser]
          /\ transactions = EmptyBag
       \/ /\ users = [pk \in AllKeys |->
                        IF pk = "u1" THEN UserRow(ESTIMATED_JOB_DURATION) ELSE NoUser]
          /\ transactions = SetToBag({StarterGrant("u1")})
    /\ req = [p \in Procs |-> [op |-> "none", pc |-> "done", ident |-> EmptyIdent,
                               result |-> Result("none")]]
    /\ calls = 0
    /\ \E live \in BOOLEAN :
          kv = [k \in Keys |->
                  IF live /\ k = NodeKey("n1")
                  THEN [present |-> TRUE, exp |-> HEARTBEAT_TTL,
                        val |-> [node_id |-> "n1", tailscale_ip |-> "100.64.0.n1",
                                 status |-> "IDLE", models |-> {"llama"}]]
                  ELSE NoKey]
    /\ now = 0
    /\ tickets = {}
    /\ hist = [owner_gain |-> 0, heartbeat_at |-> [n \in NodeIds |-> 0],
               allowed |-> [k \in RateKeys |-> 0],
               challenge |-> [t \in Tokens |->
                                [issued |-> FALSE, at |-> 0, consumed |-> FALSE]]]

NextAuthorize ==
    \/ \E p \in Procs :
          \/ \E model \in Models, pk \in PublicKeys : authorize_request(p, model, pk)
          \/ eu_query(p)
          \/ eu_insert(p)
          \/ eu_grant(p)
          \/ az_check(p)
          \/ az_keys(p)
          \/ az_mget(p)
          \/ az_reserve(p)
          \/ az_ticket(p)
          \/ \E n \in NodeIds : \E data \in Payloads(n) : receive_heartbeat(p, data)
          \/ hb_expire(p)
    \/ Tick(TickSeconds, MaxTime)

SpecAuthorize == InitAuthorize /\ [][NextAuthorize]_vars

\* States the middleware stack is entered in: the client's discovery window is
\* fresh, or its counter stands at the limit.
InitPipeline ==
    /\ users = [pk \in AllKeys |-> NoUser]
    /\ nodes = [n \in NodeIds |-> NoNode]
    /\ transactions = EmptyBag
    /\ req = [p \in Procs |-> [op |-> "none", pc |-> "done", ident |-> EmptyIdent,
                               result |-> Result("none")]]
    /\ calls = 0
    /\ now = 0
    /\ tickets = {}
    /\ hist = [owner_gain |-> 0, heartbeat_at |-> [n \in NodeIds |-> 0],
               allowed |-> [k \in RateKeys |-> 0],
               challenge |-> [t \in Tokens |->
                                [issued |-> FALSE, at |-> 0, consumed |-> FALSE]]]
    /\ \E spent \in {0, DISCOVERY_LIMIT} :
          kv = [k \in Keys |->
                  IF k = RateKey("discovery", ClientIp) /\ spent > 0
                  THEN [present |-> TRUE, val |-> spent, exp |-> WINDOW_SECONDS]
                  ELSE NoKey]

NextPipeline ==
    \/ \E p \in Procs :
          \/ \E path \in PipelinePaths : http_request(p, path)
          \/ mw_call(p)
          \/ handler(p)
          \/ handler_expire(p)
          \/ mw_return(p)
    \/ \E t \in PipelineTimes : t > now /\ Tick(t - now, MaxPipelineTime)

SpecPipeline == InitPipeline /\ [][NextPipeline]_vars

\* benchmark durations of the proofs sent while jobs are settled: 8 s earns 4.38x,
\* 35 s earns 1.0x
SettlingBenchDurations == {800, 3500}

\* A fleet at work: node n1 is registered with a 2.0x multiplier and has just
\* sent a heartbeat, a challenge issued to it is open, and requester u1 is down
\* to one reservation.
InitNodes ==
    /\ \E owner \in PublicKeys :
          nodes = [n \in NodeIds |->
                     IF n = "n1" THEN ProvisionedNode(owner, 200) ELSE NoNode]
    /\ users = [pk \in AllKeys |->
                  IF pk = "u1" THEN UserRow(ESTIMATED_JOB_DURATION) ELSE NoUser]
    /\ transactions = SetToBag({StarterGrant("u1")})
    /\ req = [p \in Procs |-> [op |-> "none", pc |-> "done", ident |-> EmptyIdent,
                               result |-> Result("none")]]
    /\ calls = 0
    /\ kv = [k \in Keys |->
               IF k = NodeKey("n1")
               THEN [present |-> TRUE, exp |-> HEARTBEAT_TTL,
                     val |-> CHOOSE data \in PipelineBeats : TRUE]
               ELSE IF k \in {ChallengeKey(t) : t \in Tokens}
               THEN [present |-> TRUE, val |-> "seed", exp |-> CHALLENGE_TTL]
               ELSE NoKey]
    /\ now = 0
    /\ tickets = {}
    /\ hist = [owner_gain |-> 0, heartbeat_at |-> [n \in NodeIds |-> 0],
               allowed |-> [k \in RateKeys |-> 0],
               challenge |-> [t \in Tokens |->
                                [issued |-> TRUE, at |-> 0, consumed |-> FALSE]]]

\* every operation that reads or writes a Node row, and the credit engine
NextNodes ==
    \E p \in Procs :
        \/ \E pk \in PublicKeys : ensure_user(p, pk)
        \/ eu_query(p)
        \/ eu_insert(p)
        \/ eu_grant(p)
        \/ \E pk \in PublicKeys, a \in Amounts : reserve(p, pk, a)
        \/ rs_commit(p)
        \/ \E pk \in PublicKeys, a \in Amounts, j \in JobIds : refund(p, pk, a, j)
        \/ rf_commit(p)
        \/ rf_txn(p)
        \/ \E j \in JobIds, pk \in PublicKeys, n \in NodeIds, d \in Durations :
              record_job_completion(p, j, pk, n, d, generate_receipt_signature(j, n, d))
        \/ st_modify(p)
        \/ st_commit(p)
        \/ \E data \in PipelineBeats : receive_heartbeat(p, data)
        \/ hb_expire(p)
        \/ \E model \in Models, pk \in PublicKeys : authorize_request(p, model, pk)
        \/ az_check(p)
        \/ az_keys(p)
        \/ az_mget(p)
        \/ az_reserve(p)
        \/ az_ticket(p)
        \/ \E n \in NodeIds, t \in Tokens, d \in SettlingBenchDurations :
              submit_proof(p, n, t, HexHash, d)

SpecNodes == InitNodes /\ [][NextNodes]_vars

\* the generator r1 is started on any sequence of chunks
InitStream ==
    /\ users = [pk \in AllKeys |-> NoUser]
    /\ nodes = [n \in NodeIds |-> NoNode]
    /\ transactions = EmptyBag
    /\ \E chunks \in SeqsUpTo(StreamChunks, MaxChunks) :
          req = [p \in Procs |->
                   IF p = "r1"
                   THEN [op |-> "stream", pc |-> "next_chunk", ident |-> EmptyIdent,
                         result |-> Result("none"), chunks |-> chunks, pos |-> 1,
                         yielded |-> <<>>]
                   ELSE [op |-> "none", pc |-> "done", ident |-> EmptyIdent,
                         result |-> Result("none")]]
    /\ calls = 0
    /\ kv = [k \in Keys |-> NoKey]
    /\ now = 0
    /\ tickets = {}
    /\ hist = [owner_gain |-> 0, heartbeat_at |-> [n \in NodeIds |-> 0],
               allowed |-> [k \in RateKeys |-> 0],
               challenge |-> [t \in Tokens |->
                                [issued |-> FALSE, at |-> 0, consumed |-> FALSE]]]

NextStream ==
    \E p \in Procs :
        \/ stream_chat_completion(p)
        \/ stream_done(p)

SpecStream == InitStream /\ [][NextStream]_vars

\* challenges and proofs, each verify a sequence of round trips
NextProofSteps ==
    \E p \in Procs :
        \/ \E n \in NodeIds, t \in Tokens : request_challenge(p, n, t)
        \/ \E n \in NodeIds, t \in Tokens, h \in ProofHashes,
              d \in SettlingBenchDurations : sp_get(p, n, t, h, d)
        \/ sp_commit(p)
        \/ sp_delete(p)

SpecProofSteps == Init /\ [][NextProofSteps]_vars

\* /authorize with an audit sink that can fail
NextAuthorizeFaults ==
    \/ NextAuthorize
    \/ \E p \in Procs : az_audit_raises(p)

SpecAuthorizeFaults == InitAuthorize /\ [][NextAuthorizeFaults]_vars

\* signature checks of receipts over identifiers that may hold ':'
NextReceipt ==
    \E p \in Procs : \E signed \in ReceiptTriples, presented \in ReceiptTriples :
        receipt_check(p, signed, presented)

SpecReceipt == Init /\ [][NextReceipt]_vars

\* the three readers of the node entries beside heartbeats and the clock
NextDiscovery ==
    \/ \E p \in Procs :
          \/ \E n \in NodeIds : \E data \in Payloads(n) : receive_heartbeat(p, data)
          \/ hb_expire(p)
          \/ \E model \in Models \cup {Null} : list_peers(p, model)
          \/ lp_mget(p)
          \/ list_models(p)
          \/ lm_mget(p)
          \/ \E model \in Models : authorize_request(p, model, "u1")
          \/ eu_query(p)
          \/ eu_insert(p)
          \/ eu_grant(p)
          \/ az_check(p)
          \/ az_keys(p)
          \/ az_mget(p)
          \/ az_reserve(p)
          \/ az_ticket(p)
    \/ Tick(TickSeconds, MaxTime)

SpecDiscovery == InitAuthorize /\ [][NextDiscovery]_vars

NextTicket ==
    \/ \E p \in Procs :
          \/ \E pk \in PublicKeys, n \in NodeIds : create_jwt_ticket(p, pk, n)
          \/ \E token \in Presentable : verify_jwt_ticket(p, token)
    \/ \E t \in TicketTimes : t > now /\ Tick(t - now, MaxTicketTime)

SpecTicket == Init /\ [][NextTicket]_vars
-----------------------------------------------------------------------------
(* Properties of the credit ledger *)

RowsOfType(type) == {r \in BagToSet(transactions) : r.type = type}

RECURSIVE SumCredits(_)
SumCredits(rows) ==
    IF rows = {} THEN 0
    ELSE LET r == CHOOSE x \in rows : TRUE
         IN  CopiesIn(r, transactions) * r.credits_transferred + SumCredits(rows \ {r})

RECURSIVE CountRows(_)
CountRows(rows) ==
    IF rows = {} THEN 0
    ELSE LET r == CHOOSE x \in rows : TRUE
         IN  CopiesIn(r, transactions) + CountRows(rows \ {r})

\* the step in which request p starts handler op (its first round trip)
Starts(p, op) ==
    /\ calls' = calls + 1
    /\ req[p].pc = "done"
    /\ req'[p].op = op
    /\ \A q \in Procs \ {p} : req'[q] = req[q]

\* C1: in every committed ledger state every User row has balance_seconds >= 0,
\* whatever integer amounts and durations reserve, refund and settle are given.
C1_NonNegativeBalance ==
    \A pk \in AllKeys : users[pk].exists => users[pk].balance_seconds >= 0

\* C2: reservations of one user serialize: every reserve that commits success finds
\* the committed balance covering its amount and lowers it by exactly that amount
\* (no over-draw, no lost decrement).
C2_ReservationsSerialize ==
    [][\A p \in Procs :
          (req[p].pc = "rs_commit" /\ req'[p].pc = "done"
             /\ req'[p].result.status = "True")
          => /\ users[req[p].pk].balance_seconds >= req[p].amount
             /\ users'[req[p].pk].balance_seconds
                    = users[req[p].pk].balance_seconds - req[p].amount]_vars

\* C3: the same job_id never settles twice: the ledger holds at most one
\* job_completion Transaction per job_id.
C3_SettleOncePerJob ==
    \A j \in JobIds :
        CountRows({r \in RowsOfType("job_completion") : r.job_id = j}) <= 1

\* C4: settle called with a signature different from
\* HMAC_SHA256(secret, "job_id:node_id:duration") returns the invalid-receipt
\* error and commits nothing (no User, Node or Transaction change).
C4_InvalidReceiptRejected ==
    [][\A p \in Procs :
          (Starts(p, "settle")
             /\ req'[p].sig # generate_receipt_signature(
                                  req'[p].job_id, req'[p].node_id, req'[p].duration))
          => /\ req'[p].pc = "done"
             /\ req'[p].result = [status |-> "error",
                                  message |-> "Invalid receipt signature"]
             /\ UNCHANGED <<users, nodes, transactions>>]_vars

\* C5: concurrent ensure_user(pk) calls for a key without a User row leave, once
\* they have all returned, exactly one User row and exactly one starter_grant
\* Transaction for pk, and every call has returned that user.
C5_ConcurrentEnsureUser ==
    (\A q \in Procs : req[q].pc = "done")
    => \A p \in Procs :
          req[p].op = "ensure_user"
          => /\ req[p].result.status = "user"
             /\ users[req[p].eu_pk].exists
             /\ CountRows({r \in RowsOfType("starter_grant") :
                              r.to_user = req[p].eu_pk}) = 1

\* C6: the sum of credits_transferred over job_completion Transactions equals the
\* total of the balance increases that settlements applied to worker-owners.
C6_CompletionCreditsMatchGains ==
    SumCredits(RowsOfType("job_completion")) = hist.owner_gain

-----------------------------------------------------------------------------
(* Properties of the fleet registry *)

\* C8: list_peers never returns a node whose last heartbeat is more than 15 s
\* old, in every state reachable by heartbeats, clock advance and a request that
\* ends at any point of record_heartbeat (the entry's TTL of at most 15 s is what
\* is to guarantee it).
C8_StaleNodesNeverListed ==
    [][\A p \in Procs :
          (req[p].pc = "lp_mget" /\ req'[p].pc = "done")
          => \A node \in req'[p].result.nodes :
                now - hist.heartbeat_at[node.node_id] <= HEARTBEAT_TTL]_vars

-----------------------------------------------------------------------------
(* Properties of the rate limiter *)

\* the limit of the bucket a counter key belongs to
LimitOf(k) ==
    IF k = RateKey("discovery", ClientIp) THEN DISCOVERY_LIMIT ELSE INFERENCE_LIMIT

\* C9: for each rate-limit key, the number of requests check_rate_limit has allowed
\* within one 3600 s window never exceeds the bucket's limit (100 discovery,
\* 20 inference), under every interleaving of concurrent requests.
C9_AllowedWithinLimit ==
    \A k \in RateKeys : hist.allowed[k] <= LimitOf(k)

-----------------------------------------------------------------------------
(* Properties of the ticket service *)

\* the time a ticket the coordinator minted was minted at
MintedAt(token) == token.claims.exp - ACCESS_TOKEN_EXPIRE_MINUTES * 60

\* C10: verify_jwt_ticket accepts a ticket minted at T at every t with
\* T <= t < T + 5 min and answers None at every t >= T + 5 min; it answers None
\* for every token with an altered claim, a foreign signature or another audience.
C10_TicketValidity ==
    [][\A p \in Procs :
          Starts(p, "verify_ticket")
          => IF req'[p].token \in tickets
             THEN (req'[p].result.status = "payload")
                     <=> (now < MintedAt(req'[p].token) + ACCESS_TOKEN_EXPIRE_MINUTES * 60)
             ELSE req'[p].result.status = "None"]_vars

-----------------------------------------------------------------------------
(* Properties of /authorize *)

\* C7: an /authorize that goes on to return a ticket has first committed a
\* reservation that lowered the requester's committed balance by exactly
\* ESTIMATED_JOB_DURATION = 300, and a ticket is minted only by a request that
\* has committed its reservation.
C7_TicketAfterReservation ==
    [][/\ \A p \in Procs :
            (req[p].pc = "az_reserve" /\ req'[p].pc = "az_ticket")
            => users'[req[p].pk].balance_seconds
                  = users[req[p].pk].balance_seconds - ESTIMATED_JOB_DURATION
       /\ tickets' # tickets
            => \E p \in Procs : req[p].pc = "az_ticket" /\ req'[p].pc = "done"]_vars

-----------------------------------------------------------------------------
(* Properties of proof-of-hardware *)

\* the step in which request p has its proof verified
Verified(p) == Starts(p, "verify") /\ req'[p].result.status = "verified"

\* C11: the multiplier verify_proof records for a duration > 0 lies in [0, 20],
\* is 20 when 35/duration >= 20 and otherwise is 35/duration rounded to two
\* decimals (within half a hundredth of it); for a duration <= 0 it is 0.
\* Durations and multipliers are in hundredths.
C11_MultiplierFormula ==
    [][\A p \in Procs :
          Verified(p)
          => LET d == req'[p].duration
                 m == nodes'[req'[p].node_id].multiplier
             IN  /\ req'[p].result.assigned_multiplier = m
                 /\ m >= 0 /\ m <= 20 * 100
                 /\ d <= 0 => m = 0
                 /\ (d > 0 /\ 35 * 100 * 100 >= 20 * 100 * d) => m = 20 * 100
                 /\ (d > 0 /\ 35 * 100 * 100 < 20 * 100 * d)
                      => /\ 2 * (m * d - 35 * 100 * 100) <= d
                         /\ 2 * (35 * 100 * 100 - m * d) <= d]_vars

\* a proof with the duration 8 s (35/8 = 4.375, a tie) was verified and 4.38 recorded
C11_Witness ==
    \E p \in Procs :
        /\ req[p].op = "verify" /\ req[p].result.status = "verified"
        /\ req[p].duration = 800
        /\ nodes[req[p].node_id].multiplier = 438

-----------------------------------------------------------------------------
(* Properties of placement *)

\* a heartbeat entry Redis serves now that is IDLE and lists model
Capable(k, model) ==
    Live(k) /\ kv[k].val.status = "IDLE" /\ model \in kv[k].val.models

\* C12: the node /authorize selects is the node of a heartbeat entry that was live,
\* IDLE and listing the requested model when it was selected, and it is that node
\* the ticket (target_node) and the answer (target_ip) name; when the scan finds
\* the registry without such an entry the request ends with 503 and no ticket is
\* minted.
C12_PlacementOnCapableNode ==
    [][\A p \in Procs :
          /\ (req[p].pc = "az_mget" /\ req'[p].pc = "az_reserve")
                => /\ Capable(NodeKey(req'[p].selected.node_id), req[p].model)
                   /\ kv[NodeKey(req'[p].selected.node_id)].val = req'[p].selected
          /\ (req[p].pc = "az_ticket" /\ req'[p].pc = "done")
                => /\ req'[p].result.status = "200"
                   /\ req'[p].result.token.claims.target_node = req[p].selected.node_id
                   /\ req'[p].result.target_ip = req[p].selected.tailscale_ip
          /\ (\/ /\ req[p].pc = "az_keys" /\ req'[p] # req[p]
                   /\ \A k \in NodeKeys : ~Live(k)
                \/ /\ req[p].pc = "az_mget" /\ req'[p] # req[p]
                   /\ \A k \in NodeKeys : ~Capable(k, req[p].model))
                => /\ req'[p].pc = "done"
                   /\ req'[p].result.status = "503"
                   /\ tickets' = tickets]_vars

\* a ticket was issued for node n2 while n1's entry was also stored but BUSY
C12_Witness ==
    \E p \in Procs :
        /\ req[p].op = "authorize" /\ req[p].pc = "done"
        /\ req[p].result.status = "200"
        /\ req[p].result.token.claims.target_node = "n2"
        /\ kv[NodeKey("n1")].present /\ kv[NodeKey("n1")].val.status = "BUSY"

-----------------------------------------------------------------------------
(* Error answers of /authorize *)

\* request p, an /authorize, takes a step
AzStep(p) == req[p].op = "authorize" /\ req[p].pc # "done" /\ req'[p] # req[p]

\* C13: an /authorize of an existing user with sufficient credits that finds no
\* live node serving the model answers 503, changes no balance, mints no ticket
\* and logs exactly one authorization event with success = FALSE and
\* reason = no_nodes_available.
C13_NoNodes503 ==
    [][\A p \in Procs :
          /\ (AzStep(p)
                /\ \/ req[p].pc = "az_keys" /\ \A k \in NodeKeys : ~Live(k)
                   \/ req[p].pc = "az_mget" /\ \A k \in NodeKeys : ~Capable(k, req[p].model))
                => req'[p].pc = "done" /\ req'[p].result.status = "503"
          /\ (AzStep(p) /\ req'[p].pc = "done" /\ req'[p].result.status = "503")
                => /\ users' = users
                   /\ tickets' = tickets
                   /\ req'[p].audit = <<[event |-> "authorization",
                                         requester_id |-> req[p].pk,
                                         model |-> req[p].model, node_id |-> "none",
                                         success |-> FALSE,
                                         reason |-> "no_nodes_available"]>>
          /\ (AzStep(p) /\ users[req[p].pk].exists
                /\ req[p].pc \in {"eu_query", "az_check", "az_keys", "az_mget"})
                => users' = users /\ tickets' = tickets]_vars

\* existing user u1, holding 300, was answered 503 and still holds 300
C13_Witness ==
    \E p \in Procs :
        /\ req[p].op = "authorize" /\ req[p].pc = "done"
        /\ req[p].result.status = "503"
        /\ req[p].pk = "u1"
        /\ users["u1"].exists /\ users["u1"].balance_seconds = ESTIMATED_JOB_DURATION
        /\ BagCardinality(transactions) = 1
        /\ tickets = {}

\* C14: every 402 answer of /authorize, from the balance check or from the
\* reservation, changes no balance, mints no ticket and is logged as one
\* authorization event with success = FALSE and reason = insufficient_credits;
\* and the balance check answers 402 whenever the committed balance it reads is
\* below ESTIMATED_JOB_DURATION.
C14_Every402Audited ==
    [][\A p \in Procs :
          /\ (AzStep(p) /\ req'[p].pc = "done" /\ req'[p].result.status = "402")
                => /\ users' = users
                   /\ tickets' = tickets
                   /\ req'[p].audit = <<[event |-> "authorization",
                                         requester_id |-> req[p].pk,
                                         model |-> req[p].model, node_id |-> "none",
                                         success |-> FALSE,
                                         reason |-> "insufficient_credits"]>>
          /\ (AzStep(p) /\ req[p].pc = "az_check" /\ ~req[p].ident[req[p].pk].loaded
                /\ users[req[p].pk].balance_seconds < ESTIMATED_JOB_DURATION)
                => req'[p].pc = "done" /\ req'[p].result.status = "402"]_vars

\* u1 spent its last 300 on a ticket and its next /authorize was answered 402
C14_Witness ==
    \E p \in Procs :
        /\ req[p].op = "authorize" /\ req[p].pc = "done"
        /\ req[p].result.status = "402"
        /\ Len(req[p].audit) = 1
        /\ users[req[p].pk].balance_seconds = 0
        /\ tickets # {}

\* the reservation step of /authorize never answers 402: the session still holds
\* the balance the check at line 364 accepted
ReserveNeverFails ==
    \A p \in Procs :
        (req[p].op = "authorize" /\ req[p].pc = "done" /\ req[p].result.status = "402")
        => req[p].result.detail = "Insufficient credits"

-----------------------------------------------------------------------------
(* Properties of settle *)

\* request p, a settle, takes a step
SettleStep(p) == req'[p].op = "settle" /\ req'[p] # req[p]

\* C15: no step of a settle lowers the requester's balance, the only balance a
\* settle changes is the worker-owner's, and the requester_balance it returns is
\* the requester's balance left as it was.
C15_SettleSparesRequester ==
    [][\A p \in Procs :
          SettleStep(p)
          => /\ users'[req'[p].pk].balance_seconds >= users[req'[p].pk].balance_seconds
             /\ \A q \in AllKeys :
                   users'[q] # users[q] => q = nodes[req'[p].node_id].owner_public_key
             /\ (req'[p].pc = "done" /\ req'[p].result.status = "success"
                   /\ req'[p].pk # nodes[req'[p].node_id].owner_public_key)
                  => req'[p].result.requester_balance
                        = users[req'[p].pk].balance_seconds]_vars

\* the part of C15 about a requester who does not own the node: every step of the
\* settle leaves the requester's row as it was
SettleRequesterFrame ==
    [][\A p \in Procs :
          (SettleStep(p) /\ req'[p].pk # nodes[req'[p].node_id].owner_public_key)
          => users'[req'[p].pk] = users[req'[p].pk]]_vars

\* the step in which settle p commits and returns its result
SettleCommits(p) ==
    /\ req[p].op = "settle" /\ req[p].pc = "st_commit"
    /\ req'[p].pc = "done" /\ req'[p].result.status = "success"

\* the job_completion row a settle with these fields appends
CompletionRow(r) ==
    [from_user |-> r.pk, to_user |-> r.owner, duration_seconds |-> r.duration,
     credits_transferred |-> r.result.credits_transferred, job_id |-> r.job_id,
     node_id |-> r.node_id, type |-> "job_completion", multiplier |-> r.multiplier]

\* C16: a settle that succeeds transfers credits = floor(duration * multiplier):
\* its commit raises the worker-owner's balance by exactly credits, raises the
\* node's total_jobs_completed by 1, appends exactly one job_completion row
\* {from requester, to owner, duration, credits, job_id, node_id} and returns
\* credits_transferred = credits.
C16_SettleEffects ==
    [][\A p \in Procs :
          SettleCommits(p)
          => LET r == req'[p]
                 credits == r.result.credits_transferred
             IN /\ 100 * credits <= r.duration * nodes[r.node_id].multiplier
                /\ r.duration * nodes[r.node_id].multiplier < 100 * (credits + 1)
                /\ users'[r.owner].balance_seconds
                      = users[r.owner].balance_seconds + credits
                /\ nodes'[r.node_id].total_jobs_completed
                      = nodes[r.node_id].total_jobs_completed + 1
                /\ transactions' = Insert(transactions, CompletionRow(r))
                /\ r.owner = nodes[r.node_id].owner_public_key]_vars

\* the committed tables
Committed == <<users, nodes, transactions>>

\* C17: a settle with a valid receipt fails with "Worker node not found" when
\* the node has no row and with "Requester not found" when the requester has no
\* row, and commits nothing: users (the worker-owner's row included), nodes and
\* transactions stay as they were.
C17_UnknownNodeOrRequester ==
    [][\A p \in Procs :
          (/\ Starts(p, "settle")
           /\ req'[p].sig = generate_receipt_signature(req'[p].job_id,
                                req'[p].node_id, req'[p].duration))
          => LET r == req'[p] IN
             /\ ~nodes[r.node_id].exists
                  => /\ r.pc = "done"
                     /\ r.result = [status |-> "error",
                                    message |-> "Worker node not found"]
                     /\ Committed' = Committed
             /\ (nodes[r.node_id].exists /\ ~users[r.pk].exists)
                  => /\ r.pc = "done"
                     /\ r.result = [status |-> "error",
                                    message |-> "Requester not found"]
                     /\ Committed' = Committed]_vars

\* a settle for an unknown requester has failed on a node whose owner has no
\* users row either, and no row was created
C17_Witness ==
    \E p \in Procs :
        /\ req[p].op = "settle" /\ req[p].pc = "done"
        /\ req[p].result.status = "error"
        /\ req[p].result.message = "Requester not found"
        /\ nodes[req[p].node_id].exists
        /\ ~users[nodes[req[p].node_id].owner_public_key].exists
        /\ ~users[req[p].pk].exists

-----------------------------------------------------------------------------
(* Properties of /transactions/submit *)

\* C18: every answered /transactions/submit request has written exactly one audit
\* event and returns its result: a transaction event when the settlement
\* succeeded, a security event carrying the reason when the receipt was rejected.
C18_SubmitAuditedOnce ==
    \A p \in Procs :
        req[p].op = "submit"
        => /\ Len(req[p].audit) = 1
           /\ req[p].status_code = "200"
           /\ req[p].result.status = "success"
                 => req[p].audit[1].event = "transaction"
           /\ req[p].result.status = "error"
                 => /\ req[p].audit[1].event = "security"
                    /\ req[p].audit[1].reason = req[p].result.message

\* the rest of C18: the step in which record_job_completion rejects a receipt
\* and the handler's audit step change no balance
RejectedSubmitChangesNothing ==
    [][\A p \in Procs :
          (req'[p] # req[p] /\ req'[p].op \in {"settle", "submit"}
             /\ req'[p].pc = "done" /\ req'[p].result.status # "success")
          => users' = users /\ nodes' = nodes /\ transactions' = transactions]_vars

-----------------------------------------------------------------------------
(* Properties of reserve and refund *)

\* C19: a reserve on an existing user whose balance covers the amount goes on to
\* commit, returns success and lowers that user's balance by exactly the amount;
\* any other reserve returns failure at once; no reserve changes another balance,
\* and a failing one changes none.
C19_ReserveContract ==
    [][\A p \in Procs :
          /\ (Starts(p, "reserve") /\ req'[p] # req[p])
               => LET r == req'[p]
                      covered == /\ users[r.pk].exists
                                 /\ users[r.pk].balance_seconds >= r.amount
                  IN /\ users' = users
                     /\ covered => r.pc = "rs_commit"
                     /\ ~covered => r.pc = "done" /\ r.result.status = "False"
          /\ (req[p].op = "reserve" /\ req[p].pc = "rs_commit" /\ req'[p] # req[p])
               => /\ req'[p].pc = "done" /\ req'[p].result.status = "True"
                  /\ users'[req[p].pk].balance_seconds
                        = users[req[p].pk].balance_seconds - req[p].amount
                  /\ \A q \in AllKeys \ {req[p].pk} : users'[q] = users[q]]_vars

\* the row a refund of request r appends
RefundRow(r) ==
    [from_user |-> Null, to_user |-> r.pk, duration_seconds |-> 0,
     credits_transferred |-> r.amount, job_id |-> r.job_id, node_id |-> Null,
     type |-> "refund", multiplier |-> 0]

\* C20: a refund on an existing user raises that user's balance by exactly the
\* amount and appends exactly one refund row {from null, to pk, credits amount,
\* job_id} in one and the same commit, so no committed state holds the credit
\* without its row; a refund on an absent user changes nothing.
C20_RefundAtomic ==
    [][\A p \in Procs :
          /\ (Starts(p, "refund") /\ req'[p] # req[p] /\ ~users[req'[p].pk].exists)
               => req'[p].pc = "done" /\ Committed' = Committed
          /\ (req[p].op = "refund" /\ req[p].pc # "done" /\ req'[p] # req[p])
               => /\ users'[req[p].pk].balance_seconds
                        = users[req[p].pk].balance_seconds + req[p].amount
                  /\ \A q \in AllKeys \ {req[p].pk} : users'[q] = users[q]
                  /\ transactions' = Insert(transactions, RefundRow(req[p]))]_vars

-----------------------------------------------------------------------------
(* Properties of ensure_user *)

\* the starter_grant rows of pk
GrantsOf(pk) == CountRows({r \in RowsOfType("starter_grant") : r.to_user = pk})

\* C21: ensure_user called for a pk without a row inserts the user with balance
\* STARTER_CREDITS and then its one starter_grant row and returns the user;
\* called for a pk that has its row it returns the user at once and changes no
\* users row, no balance and no transaction.
C21_EnsureUserIdempotent ==
    [][\A p \in Procs :
          /\ (/\ Starts(p, "ensure_user")
              /\ users[req'[p].eu_pk].exists
              /\ (req'[p] # req[p] \/ req[p].result.status = "user"))
               => /\ req'[p].pc = "done" /\ req'[p].result.status = "user"
                  /\ Committed' = Committed
          /\ (/\ req[p].op = "ensure_user" /\ req[p].pc = "eu_insert"
              /\ req'[p] # req[p] /\ ~users[req[p].eu_pk].exists)
               => /\ users' = [users EXCEPT ![req[p].eu_pk] =
                                  [exists |-> TRUE, balance_seconds |-> 3600]]
                  /\ transactions' = transactions
          /\ (req[p].op = "ensure_user" /\ req[p].pc = "eu_grant" /\ req'[p] # req[p])
               => /\ GrantsOf(req[p].eu_pk) = 0 /\ GrantsOf(req[p].eu_pk)' = 1
                  /\ users' = users
                  /\ req'[p].pc = "done" /\ req'[p].result.status = "user"]_vars

\* two ensure_user calls for the same key have both returned the user, created by
\* the first with the starter balance and one grant
C21_Witness ==
    /\ req["r1"].op = "ensure_user" /\ req["r2"].op = "ensure_user"
    /\ req["r1"].pc = "done" /\ req["r2"].pc = "done"
    /\ req["r1"].eu_pk = "w1" /\ req["r2"].eu_pk = "w1"
    /\ req["r1"].result.status = "user" /\ req["r2"].result.status = "user"
    /\ users["w1"] = [exists |-> TRUE, balance_seconds |-> STARTER_CREDITS]
    /\ GrantsOf("w1") = 1

-----------------------------------------------------------------------------
(* Properties of discovery *)

\* the entries Redis serves that are IDLE and, with a filter, list the model
LiveIdleMatching(keys, model) ==
    {kv[k].val : k \in {x \in keys : Live(x) /\ kv[x].val.status = "IDLE"
                                     /\ (model = Null \/ model \in kv[x].val.models)}}

LiveModels(keys) == UNION {kv[k].val.models : k \in {x \in keys : Live(x)}}

-----------------------------------------------------------------------------
(* Properties of /hardware/verify *)

\* the answer of a verify that found no challenge
ChallengeExpired == [status |-> "400", detail |-> "Challenge expired or invalid"]

\* the answer of a verify whose proof_hash has the wrong form
BadProofFormat == [status |-> "400", detail |-> "Invalid hash format"]

\* token was never issued, was consumed by a verification, or was issued more
\* than 60 s ago
Spent(token) ==
    \/ ~hist.challenge[token].issued
    \/ hist.challenge[token].consumed
    \/ now - hist.challenge[token].at > 60

\* C24: a verify presenting a challenge_token that was never issued, was already
\* consumed, or was issued more than 60 s earlier is answered 400 (challenge
\* expired) and creates or modifies no Node row.
C24_SpentChallengeRejected ==
    [][\A p \in Procs :
          (/\ Starts(p, "verify")
           /\ req'[p] # req[p] \/ req[p].result = ChallengeExpired
           /\ Spent(req'[p].token))
          => /\ req'[p].result = ChallengeExpired
             /\ nodes' = nodes /\ users' = users]_vars

\* a verify was refused for a token issued 61 s before, and the node has no row
C24_Witness ==
    \E p \in Procs :
        /\ req[p].op = "verify" /\ req[p].result = ChallengeExpired
        /\ hist.challenge[req[p].token].issued
        /\ ~hist.challenge[req[p].token].consumed
        /\ now - hist.challenge[req[p].token].at = 61
        /\ ~nodes[req[p].node_id].exists

\* C25: a verify presenting a live challenge and a proof_hash that is not 64
\* hexadecimal characters is answered 400 (bad proof format) and writes no Node
\* row.
C25_BadProofHashRejected ==
    [][\A p \in Procs :
          (/\ Starts(p, "verify") /\ req'[p] # req[p]
           /\ Live(ChallengeKey(req'[p].token))
           /\ req'[p].proof_hash # HexHash)
          => /\ req'[p].result = BadProofFormat
             /\ nodes' = nodes]_vars

\* C26: a verify that registers a node_id without a Node row attaches the new
\* Node to the system owner, created with balance 0 when absent, and to no other
\* user, whatever users rows exist.
C26_NewNodeOwnedBySystem ==
    [][\A p \in Procs :
          (/\ Starts(p, "verify") /\ req'[p].result.status = "verified"
           /\ ~nodes[req'[p].node_id].exists /\ nodes'[req'[p].node_id].exists)
          => /\ nodes'[req'[p].node_id].owner_public_key = SystemKey
             /\ users'[SystemKey].exists
             /\ ~users[SystemKey].exists => users'[SystemKey].balance_seconds = 0
             /\ \A pk \in PublicKeys : users'[pk] = users[pk]]_vars

-----------------------------------------------------------------------------
(* Properties of the rate limiter for requests in sequence *)

\* C27: of the requests one client sends one after the other within a window, the
\* k-th is allowed with remaining = limit - k for k <= limit; every later one is
\* refused with (False, 0), answered 429 with Retry-After 3600 and one rate_limit
\* audit event, and is not handed to the handler.
C27_SequentialWindow ==
    [][\A p \in Procs :
          /\ (req[p].pc = "done" /\ req'[p].pc # "done")
               => IF hist.allowed[req'[p].key] >= LimitOf(req'[p].key)
                  THEN /\ req'[p].pc = "rl_dispatch"
                       /\ req'[p].result = [allowed |-> FALSE, remaining |-> 0]
                  ELSE req'[p].pc \in {"rl_setex", "rl_incr"}
          /\ (req[p].pc \in {"rl_setex", "rl_incr"} /\ req'[p].pc = "rl_dispatch")
               => LET k == hist.allowed[req[p].key] + 1
                  IN  /\ k <= LimitOf(req[p].key)
                      /\ hist'.allowed[req[p].key] = k
                      /\ req'[p].result = [allowed |-> TRUE,
                                           remaining |-> LimitOf(req[p].key) - k]
          /\ (req[p].pc = "rl_dispatch" /\ req'[p].pc = "done")
               => IF req[p].result.allowed
                  THEN req'[p].result.status = "next"
                  ELSE req'[p].result =
                         [status |-> "429", retry_after |-> "3600",
                          audit |-> <<[event |-> "rate_limit", endpoint |-> req[p].path,
                                       limit |-> LimitOf(req[p].key),
                                       window |-> WINDOW_SECONDS]>>]]_vars

\* the 101st GET /v1/models of a window has been answered 429
C27_Witness ==
    \E p \in Procs :
        /\ req[p].op = "dispatch" /\ req[p].pc = "done"
        /\ req[p].result.status = "429"
        /\ req[p].result.audit[1].endpoint = "/v1/models"
        /\ hist.allowed[RateKey("discovery", ClientIp)] = DISCOVERY_LIMIT

-----------------------------------------------------------------------------
(* Properties of the middleware stack *)

Finished(p) == req[p].op = "request" /\ req[p].pc = "done"

\* every entry of layer inner comes after an entry of layer outer
EnteredInside(trail, inner, outer) ==
    \A j \in 1..Len(trail) :
        trail[j] = inner => \E i \in 1..(j - 1) : trail[i] = outer

TracingHeaders == {"X-Request-ID", "X-Response-Time"}

\* a 429 of the rate limiter reaches the client with the tracing headers
RefusalCarriesTracing ==
    \A p \in Procs :
        Finished(p) /\ req[p].response.status = "429"
        => TracingHeaders \subseteq req[p].response.headers

\* an answer of the handler reaches the client with the tracing headers
HandlerResponseCarriesTracing ==
    \A p \in Procs :
        Finished(p) /\ req[p].response.status = "200"
        => TracingHeaders \subseteq req[p].response.headers

\* C28: a request crosses the layers in the order timeout, request tracing, rate
\* limit, handler, so that the deadline covers the rate-limit check and the
\* handler, and every answer of the rate limiter (429) or of the handler carries
\* the X-Request-ID and X-Response-Time headers of tracing.
C28_TimeoutTracingRateLimitHandler ==
    \A p \in Procs :
        Finished(p)
        => /\ EnteredInside(req[p].trail, "RequestTracingMiddleware", "TimeoutMiddleware")
           /\ EnteredInside(req[p].trail, "RateLimitMiddleware", "RequestTracingMiddleware")
           /\ EnteredInside(req[p].trail, "handler", "RateLimitMiddleware")
           /\ req[p].response.status \in {"429", "200"}
                => TracingHeaders \subseteq req[p].response.headers

\* the layer whose deadline is the request's: the outermost TimeoutMiddleware
DeadlineLayer ==
    CHOOSE i \in Layers :
        /\ user_middleware[i] = "TimeoutMiddleware"
        /\ \A j \in 1..(i - 1) : user_middleware[j] # "TimeoutMiddleware"

\* request p is under its deadline layer's timer and has run longer than its
\* deadline
Overdue(p) ==
    /\ req[p].op = "request"
    /\ \/ req[p].layer > DeadlineLayer
          /\ req[p].pc \in {"call", "handler", "handler_expire", "return"}
       \/ req[p].layer = DeadlineLayer /\ req[p].pc = "return"
    /\ now - req[p].started[DeadlineLayer] > _get_timeout(req[p].path)

\* a request that is overdue when its answer comes back to the deadline layer is
\* answered 504 with X-Timeout-Ms
OverdueAnswered504 ==
    [][\A p \in Procs :
          (/\ Overdue(p) /\ req[p].pc = "return" /\ req[p].layer = DeadlineLayer
           /\ req'[p] # req[p])
          => /\ req'[p].response.status = "504"
             /\ "X-Timeout-Ms" \in req'[p].response.headers]_vars

\* C29: a request that runs longer than its endpoint's deadline is answered 504
\* with X-Timeout-Ms and its work in flight is cancelled: once the deadline has
\* passed, no step of the request writes to the ledger or to the ephemeral
\* store.
C29_DeadlineCancelsWork ==
    [][\A p \in Procs :
          (Overdue(p) /\ req'[p] # req[p])
          => /\ <<kv, users, nodes, transactions>>' = <<kv, users, nodes, transactions>>
             /\ req[p].layer = DeadlineLayer
                  => /\ req'[p].response.status = "504"
                     /\ "X-Timeout-Ms" \in req'[p].response.headers]_vars

-----------------------------------------------------------------------------
(* Properties of the audit sink *)

\* a failed file write or a failed row insert leaves the refusal a 429
WriteFailureSparesRefusal ==
    \A p \in Procs :
        Finished(p) /\ req[p].refused /\ req[p].sink \in {"file_write_fails", "insert_fails"}
        => req[p].response.status = "429"

\* C30: a failure of the audit sink (the file write, the audit_logs insert, or
\* the opening of the database session) never makes the audited operation fail
\* or change its result: a request the rate limiter refuses is answered 429
\* whatever happens to its audit event.
C30_AuditFailureSparesOperation ==
    \A p \in Procs :
        Finished(p) /\ req[p].refused => req[p].response.status = "429"

-----------------------------------------------------------------------------
(* Conservation of credits *)

RECURSIVE SumBalances(_)
SumBalances(keys) ==
    IF keys = {} THEN 0
    ELSE LET pk == CHOOSE x \in keys : TRUE
         IN  users[pk].balance_seconds + SumBalances(keys \ {pk})

\* C31: after any sequence of ensure_user, reserve, refund and settle on a ledger
\* that started without users, the sum of credits_transferred over all
\* Transaction rows equals the total of the User balances (their net change),
\* the starter grants counted as the rows they are or added on top of them.
C31_CreditsConserved ==
    Idle
    => LET rows == SumCredits(BagToSet(transactions))
           grants == SumCredits(RowsOfType("starter_grant"))
           balances == SumBalances(AllKeys)
       IN  rows = balances \/ rows = balances + grants

-----------------------------------------------------------------------------
(* Properties of the Node row *)

\* request p has just returned verified for node n
VerifiedStep(p, n) ==
    /\ req[p].pc = "done" /\ calls' = calls + 1
    /\ req'[p].op = "verify" /\ req'[p].node_id = n
    /\ req'[p].result.status = "verified"

\* C32: a Node's multiplier changes only in the step of a successful verify of
\* that node: no step of settle, reserve, refund, ensure_user, heartbeat or
\* authorize changes a multiplier; and the multiplier in the job_completion row
\* a settle appends is the node's multiplier as the settle read it, the one its
\* credits were computed from.
C32_MultiplierWrittenByVerifyOnly ==
    [][/\ \A n \in NodeIds :
             nodes'[n].multiplier # nodes[n].multiplier
             => \E p \in Procs : VerifiedStep(p, n)
       /\ \A p \in Procs :
             (/\ req'[p] # req[p]
              /\ req'[p].op \in {"settle", "reserve", "refund", "ensure_user",
                                 "heartbeat", "authorize"})
             => \A n \in NodeIds : nodes'[n].multiplier = nodes[n].multiplier
       /\ \A p \in Procs :
             (Starts(p, "settle") /\ req'[p].pc # "done")
             => req'[p].multiplier = nodes[req'[p].node_id].multiplier
       /\ \A p \in Procs :
             SettleCommits(p)
             => \E row \in BagToSet(transactions') :
                   /\ transactions' = Insert(transactions, row)
                   /\ row.type = "job_completion"
                   /\ row.multiplier = req[p].multiplier
                   /\ row.credits_transferred =
                         IntTrunc(row.duration_seconds * row.multiplier, 100)]_vars

\* a settle of n1 has committed after a verify gave n1 another multiplier than
\* the settle had read: the row holds the multiplier read, the node keeps the
\* verified one
C32_Witness ==
    \E p \in Procs :
        /\ req[p].op = "settle" /\ req[p].pc = "done"
        /\ req[p].result.status = "success"
        /\ nodes[req[p].node_id].multiplier = 438
        /\ \E row \in BagToSet(transactions) :
              row.type = "job_completion" /\ row.multiplier = 200

-----------------------------------------------------------------------------
(* Properties of the SSE stream *)

\* every line of the chunk is a JSON value or empty
WellFormed(chunk) ==
    chunk.decodes /\ \A i \in 1..Len(chunk.lines) :
                        chunk.lines[i].loads \in {"value", "skipped"}

\* one event per JSON value among the lines, in their order
RECURSIVE ValueEvents(_)
ValueEvents(lines) ==
    IF lines = <<>> THEN <<>>
    ELSE IF Head(lines).loads = "value"
    THEN <<"data: " \o Head(lines).dumps \o "\n\n">> \o ValueEvents(Tail(lines))
    ELSE ValueEvents(Tail(lines))

IsParseError(event) ==
    \E e \in {"JSONDecodeError", "UnicodeDecodeError", "ValueError"} :
        event = ParseErrorEvent(e)

\* what the claim asks of a generator that has ended, whatever its chunks
StreamContract(r) ==
    /\ Len(r.yielded) = Len(r.chunks) + 1
    /\ r.yielded[Len(r.yielded)] = <<"data: [DONE]\n\n">>
    /\ \A i \in 1..Len(r.chunks) :
          /\ \A j \in 1..Len(r.yielded[i]) : r.yielded[i][j] # "data: [DONE]\n\n"
          /\ IF WellFormed(r.chunks[i])
             THEN r.yielded[i] = ValueEvents(r.chunks[i].lines)
             ELSE /\ r.yielded[i] # <<>>
                  /\ IsParseError(r.yielded[i][Len(r.yielded[i])])
                  /\ \A j \in 1..(Len(r.yielded[i]) - 1) : ~IsParseError(r.yielded[i][j])

\* C33: for every sequence of chunks, the empty one and those with malformed
\* chunks included, the stream has one event per JSON line of each well-formed
\* chunk in input order, a parse-error event for each malformed chunk, after
\* which the following chunks are processed, and exactly one "data: [DONE]"
\* event, which is its last item.
C33_StreamEndsWithDone ==
    \A p \in Procs :
        req[p].op = "stream" /\ req[p].pc = "done" => StreamContract(req[p])

\* the same for the chunks whose every line json.loads either loads or refuses
\* with JSONDecodeError
StreamOfLoadableLines ==
    \A p \in Procs :
        (/\ req[p].op = "stream" /\ req[p].pc = "done"
         /\ \A i \in 1..Len(req[p].chunks) :
               \A j \in 1..Len(req[p].chunks[i].lines) :
                  req[p].chunks[i].lines[j].loads # "ValueError")
        => StreamContract(req[p])

-----------------------------------------------------------------------------
(* Atomicity of create_user_if_not_exists *)

\* C34: the User row and its starter_grant row are committed in one step: no
\* committed state, the one another request reads or an abort leaves behind,
\* holds a User created by ensure_user without its starter_grant row.
C34_UserCommittedWithGrant ==
    \A pk \in PublicKeys : users[pk].exists => GrantsOf(pk) >= 1

\* once no call is under way, every User has its starter_grant row
GrantPresentWhenIdle ==
    Idle /\ (\A p \in Procs : req[p].result.status # "IntegrityError")
    => \A pk \in PublicKeys : users[pk].exists => GrantsOf(pk) >= 1

-----------------------------------------------------------------------------
(* Expiry of the rate-limit counters *)

\* C35: every rate-limit counter is stored with an expiry, under every
\* interleaving of check_rate_limit with the expiry of its key, so that a
\* refused identity is allowed again once the window is over.
C35_CounterHasTTL ==
    \A k \in RateKeys : kv[k].present => kv[k].exp # NoTTL

\* a counter that check_rate_limit creates with SETEX expires a window later
CounterCreatedWithWindowTTL ==
    [][\A p \in Procs :
          (req[p].pc = "rl_setex" /\ req'[p].pc = "rl_dispatch")
          => /\ kv'[req[p].key].present
             /\ kv'[req[p].key].exp = now + WINDOW_SECONDS]_vars

-----------------------------------------------------------------------------
(* Properties of trust_score, in hundredths *)

\* no step lowers a node's trust_score
TrustNeverDecreases ==
    [][\A n \in NodeIds : nodes'[n].trust_score >= nodes[n].trust_score]_vars

\* every trust_score lies within [0, 1]
TrustWithinBounds ==
    \A n \in NodeIds : 0 <= nodes[n].trust_score /\ nodes[n].trust_score <= 100

\* C36: every successful settle sets the node's trust_score to
\* min(1.0, previous + 0.01): settlement never lowers a trust_score, raises it
\* while it is below the cap, and every trust_score stays within [0, 1].
C36_TrustScoreBumped ==
    [][/\ \A n \in NodeIds :
             /\ nodes'[n].trust_score >= nodes[n].trust_score
             /\ 0 <= nodes'[n].trust_score /\ nodes'[n].trust_score <= 100
       /\ \A p \in Procs :
             SettleCommits(p)
             => LET previous == nodes[req[p].node_id].trust_score
                IN  /\ nodes'[req[p].node_id].trust_score = Min(100, previous + 1)
                    /\ previous < 100
                         => nodes'[req[p].node_id].trust_score > previous]_vars

-----------------------------------------------------------------------------
(* Single use of a challenge token *)

\* request p returns verified in this step
ReturnsVerified(p) ==
    /\ req[p].op = "verify" /\ req[p].pc # "done"
    /\ req'[p].pc = "done" /\ req'[p].result.status = "verified"

\* a verify that returns verified leaves its token deleted
VerifiedDeletesToken ==
    [][\A p \in Procs :
          ReturnsVerified(p) => ~kv'[ChallengeKey(req[p].token)].present]_vars

\* C37: a challenge token authorizes at most one successful verify: the verify
\* that returns verified deletes the token, and no verify, concurrent ones
\* included, returns verified for a token that an earlier verify has consumed
\* since it was issued.
C37_TokenSingleUse ==
    [][\A p \in Procs :
          ReturnsVerified(p)
          => /\ ~hist.challenge[req[p].token].consumed
             /\ ~kv'[ChallengeKey(req[p].token)].present]_vars

-----------------------------------------------------------------------------
(* The reservation of an /authorize that delivers no ticket *)

\* request p, an /authorize, takes a step
AuthorizeStep(p) == req'[p].op = "authorize" /\ req'[p] # req[p]

\* the only step of an /authorize that lowers a balance is its reservation
DebitOnlyAtReservation ==
    [][\A p \in Procs :
          (AuthorizeStep(p) /\ ~(req[p].pc = "az_reserve" /\ req'[p].pc = "az_ticket"))
          => \A pk \in AllKeys :
                users'[pk].balance_seconds >= users[pk].balance_seconds]_vars

\* C38: an /authorize that returns no ticket leaves the requester's balance as
\* it was, the starter grant of a new user apart: no step of it lowers a balance
\* except its reservation, and a request that has committed its reservation ends
\* with the 200 answer that carries the ticket.
C38_DebitOnlyWithTicket ==
    [][\A p \in Procs :
          AuthorizeStep(p)
          => /\ ~(req[p].pc = "az_reserve" /\ req'[p].pc = "az_ticket")
                  => \A pk \in AllKeys :
                        users'[pk].balance_seconds >= users[pk].balance_seconds
             /\ (req[p].op = "authorize" /\ req[p].pc = "az_ticket")
                  => req'[p].result.status = "200"]_vars

-----------------------------------------------------------------------------
(* What a receipt signature binds *)

\* a signature made for one triple is refused for a triple that differs in its
\* duration alone
SignatureBindsDuration ==
    \A p \in Procs :
        (/\ req[p].op = "receipt_check"
         /\ req[p].signed[1] = req[p].presented[1]
         /\ req[p].signed[2] = req[p].presented[2]
         /\ req[p].signed[3] # req[p].presented[3])
        => req[p].result = "False"

\* C39: a signature the check accepts for (job_id, node_id, duration) was made
\* for that triple and for no other one.
C39_SignatureBindsTriple ==
    \A p \in Procs :
        (req[p].op = "receipt_check" /\ req[p].result = "True")
        => req[p].presented = req[p].signed

-----------------------------------------------------------------------------
(* An entry that expires between KEYS and MGET *)

\* request p has enumerated the keys and not yet read them; one of the keys has
\* expired since and another is still live
ExpiredSinceKeys(p, pc) ==
    /\ req[p].pc = pc
    /\ \E k \in req[p].keys : ~Live(k)
    /\ \E k \in req[p].keys : Live(k)

\* C40: list_peers, list_models and the candidate search of authorize_request
\* answer from the entries that are live at the MGET: an entry of the
\* enumeration that has expired is left out, every entry that is still live is
\* filtered and used as if nothing had expired, and none of the three fails.
C40_ExpiredEntryOmitted ==
    [][\A p \in Procs :
          /\ (req[p].pc = "lp_mget" /\ req'[p] # req[p])
               => /\ req'[p].pc = "done"
                  /\ DOMAIN req'[p].result = {"count", "nodes"}
                  /\ req'[p].result.nodes = LiveIdleMatching(req[p].keys, req[p].model)
                  /\ req'[p].result.count = Cardinality(req'[p].result.nodes)
          /\ (req[p].pc = "lm_mget" /\ req'[p] # req[p])
               => /\ req'[p].pc = "done"
                  /\ "data" \in DOMAIN req'[p].result
                  /\ LET data == req'[p].result.data
                     IN  {data[i].id : i \in 1..Len(data)} = LiveModels(req[p].keys)
          /\ (req[p].pc = "az_mget" /\ req'[p] # req[p])
               => LET live == LiveIdleMatching(req[p].keys, req[p].model)
                  IN  IF live = {}
                      THEN req'[p].pc = "done" /\ req'[p].result.status = "503"
                      ELSE req'[p].pc = "az_reserve" /\ req'[p].selected \in live]_vars

\* /peers and /authorize both stand between KEYS and MGET with an expired and a
\* live entry in their enumerations
C40_Witness ==
    \E p, q \in Procs : ExpiredSinceKeys(p, "lp_mget") /\ ExpiredSinceKeys(q, "az_mget")

\* /v1/models stands between KEYS and MGET in the same way
ModelsSeeExpiry == \E p \in Procs : ExpiredSinceKeys(p, "lm_mget")
====
